---- MODULE Spec2Model ----
(***************************************************************************)
(* BlueTit particle storage (ttdb): the Python binding layer of            *)
(* source/ttdb/ttdb.py (and its twin source/titsdk/ttdb.py + lib.py) over  *)
(* the native storage engine reached through the C ABI.                    *)
(*                                                                         *)
(* The binding layer (checked_func, the wrapper classes, their __del__ and *)
(* __next__ methods, open_storage) is translated from the Python source.   *)
(* The native engine (libttdb.so / libtitsdk.so) is not part of the Python *)
(* sources; its behaviour is modelled from the specification's sections    *)
(* 3, 4, 6 and 7 (operators whose names start with N or Disk).             *)
(***************************************************************************)
EXTENDS Integers, Sequences, FiniteSets, TLC

VARIABLES
  heap,    \* engine: the open native handles, handle -> iteration position
  err,     \* engine: the last-error slot read by ttdb__last_error
  objs,    \* binding: the live Python wrapper objects
  misuse,  \* ghost: an ABI call was issued on a handle that is not open
  last,    \* ghost: the last binding operation, its ABI call and its outcome
  threads, \* the threads of a concurrent program: where each is, what it holds
  typed,   \* a type token or array description, and what an accessor made of it
  client,  \* the web-socket server's client slot: a socket, or None
  sockets, \* the web sockets that connect to the server, and their handlers
  served,  \* the server's last event handler run, and how it ended
  reader,  \* a ParaView reader: its fields, and what its last request gave
  stored,  \* the number of frames the solver has written to each file
  build,   \* a run of the build script: its arguments, the steps run, its exit
  runner,  \* a run of the test driver: what it expects, what it compared, its exit
  server   \* the server's storage, and the process streams sys.stdout and sys.stderr

vars == <<heap, err, objs, misuse, last, threads, typed, client, sockets, served, reader, stored, build, runner, server>>

\* What takes no part in the single-threaded script stays as it starts.
Aside == UNCHANGED <<threads, typed, client, sockets, served, reader, stored, build, runner, server>>

\* The number of native handles open at a time.
MaxLive == 3

(***************************************************************************)
(* Values crossing the ABI.  A handle is an opaque token; the model names  *)
(* it by what it denotes and a serial number that keeps apart the handles  *)
(* that denote the same thing.                                             *)
(***************************************************************************)
Tok(kind, path, ref, k) == [kind |-> kind, path |-> path, ref |-> ref, k |-> k]

\* A null pointer returned where the ABI returns a handle (ctypes: None).
NULL == Tok("null", "", << >>, 0)
\* A null char pointer returned by ttdb__last_error (ctypes: None).
NullStr == "<null>"

(***************************************************************************)
(* The files the engine can be asked to open (engine side, from the spec). *)
(* particles.ttdb: two series; series 0 has no frames yet, series 1 has    *)
(* two frames, each with one uniform array and two varying arrays.  An     *)
(* array has a name, a size, a type (kind string, rank, dim) and stored    *)
(* bytes that decode (ok) or do not: array v of the frame at time 0 does   *)
(* not.                                                                    *)
(* waves.ttdb is a second file of the same content.                        *)
(* missing.ttdb does not exist; corrupt.ttdb is no valid container.        *)
(***************************************************************************)
DiskArr(name, size, kind, rank, dim, ok) ==
  [name |-> name, size |-> size, kind |-> kind, rank |-> rank, dim |-> dim, ok |-> ok]

\* A frame whose velocity array has one entity more than the others.
DiskFrame_Ragged(t, n) ==
  [time |-> t, count |-> n,
   uniforms |-> << DiskArr("dt", 1, "float64_t", 0, 1, TRUE) >>,
   varyings |-> << DiskArr("r", n, "float64_t", 1, 2, TRUE),
                   DiskArr("v", n + 1, "float32_t", 1, 2, t # 0),
                   DiskArr("r", n, "float32_t", 0, 1, TRUE) >>]

DiskFrame(t, n) ==
  [time |-> t, count |-> n,
   uniforms |-> << DiskArr("dt", 1, "float64_t", 0, 1, TRUE) >>,
   varyings |-> << DiskArr("r", n, "float64_t", 1, 2, TRUE),
                   DiskArr("v", n, "float32_t", 1, 2, t # 0),
                   DiskArr("r", n, "float32_t", 0, 1, TRUE) >>]

Disk == [p \in {"particles.ttdb", "waves.ttdb"} |-> << << >>, << DiskFrame(0, 2), DiskFrame(1, 3) >> >>]

DiskSeries(p, ref) == Disk[p][ref[1] + 1]
DiskTimeStep(p, ref) == DiskSeries(p, ref)[ref[2] + 1]
DiskDataset(p, ref) ==
  IF ref[3] = 0 THEN DiskTimeStep(p, ref).uniforms ELSE DiskTimeStep(p, ref).varyings
DiskArray(p, ref) == DiskDataset(p, ref)[ref[4] + 1]

\* The number of elements of the container of kind k at ref.
DiskCount(k, p, ref) ==
  CASE k = "storage" -> Len(Disk[p])
    [] k = "series" -> Len(DiskSeries(p, ref))
    [] k = "dataset" -> Len(DiskDataset(p, ref))
    [] OTHER -> 0

(***************************************************************************)
(* The native engine.                                                      *)
(***************************************************************************)
\* element_width(kind): the bytes of one scalar of the kind.
NWidth(kind) ==
  CASE kind \in {"int8_t", "uint8_t"} -> 1
    [] kind \in {"int16_t", "uint16_t"} -> 2
    [] kind \in {"int32_t", "uint32_t", "float32_t"} -> 4
    [] kind \in {"int64_t", "uint64_t", "float64_t"} -> 8
    [] OTHER -> 0

\* dim^rank for rank 0, 1, 2.
NPower(dim, rank) == IF rank = 0 THEN 1 ELSE IF rank = 1 THEN dim ELSE dim * dim

\* The bytes ttdb_array__read copies: size * dim^rank * element_width(kind).
NBytes(size, dim, rank, kind) == size * NPower(dim, rank) * NWidth(kind)

\* The type token of a type: an opaque value, no resource behind it.
NTypeTok(kind, rank, dim) == Tok("type", kind, <<rank, dim>>, 0)

\* The token the engine hands out for a new handle: one not in use.
NAlloc(hp, kind, path, ref) ==
  Tok(kind, path, ref,
      CHOOSE k \in 0..Cardinality(DOMAIN hp) :
        /\ Tok(kind, path, ref, k) \notin DOMAIN hp
        /\ \A j \in 0..(k - 1) : Tok(kind, path, ref, j) \in DOMAIN hp)

NPut(hp, a, pos) == [x \in DOMAIN hp \cup {a} |-> IF x = a THEN pos ELSE hp[x]]
NDrop(hp, a) == [x \in DOMAIN hp \ {a} |-> hp[x]]

\* A slot that a call that succeeded leaves as it found it.
NCleared_Sticky(e) == e

\* The slot after a call that succeeded: cleared (null until first set).
NCleared(e) == IF e = NullStr THEN NullStr ELSE ""

\* Outcomes of a native call: the new heap, the returned number, handle or
\* string, the new last-error slot, and whether the call was issued on a
\* handle that is not open (or not of the kind the call takes).
NRet(hp, e, ret, hnd, txt) ==
  [heap |-> hp, ret |-> ret, hnd |-> hnd, txt |-> txt, err |-> NCleared(e), bad |-> FALSE]
NFail(hp, hnd, error) ==
  [heap |-> hp, ret |-> 0, hnd |-> hnd, txt |-> "", err |-> error, bad |-> FALSE]
NInvalid(hp) ==
  [heap |-> hp, ret |-> 0, hnd |-> NULL, txt |-> "", err |-> "InvalidHandle", bad |-> TRUE]

NNew(hp, e, kind, path, ref) ==
  LET a == NAlloc(hp, kind, path, ref) IN NRet(NPut(hp, a, 0), e, 0, a, "")

NCloseFns ==
  {"ttdb__close", "ttdb_series__close", "ttdb_time_step__close", "ttdb_dataset__close",
   "ttdb_array__close", "ttdb_series_iter__close", "ttdb_time_step_iter__close",
   "ttdb_array_iter__close"}
NCountFns == {"ttdb__num_series", "ttdb_series__num_time_steps", "ttdb_dataset__num_arrays"}
NLastFns == {"ttdb__last_series", "ttdb_series__last_time_step"}
NIterFns == {"ttdb__series", "ttdb_series__time_steps", "ttdb_dataset__arrays"}
NNextFns == {"ttdb_series_iter__next", "ttdb_time_step_iter__next", "ttdb_array_iter__next"}

\* The kind of handle each ABI function takes.
NTakes(fn) ==
  CASE fn \in {"ttdb__close", "ttdb__num_series", "ttdb__last_series", "ttdb__series"} -> "storage"
    [] fn \in {"ttdb_series__close", "ttdb_series__num_time_steps",
               "ttdb_series__last_time_step", "ttdb_series__time_steps"} -> "series"
    [] fn \in {"ttdb_time_step__close", "ttdb_time_step__time",
               "ttdb_time_step__uniforms", "ttdb_time_step__varyings"} -> "time_step"
    [] fn \in {"ttdb_dataset__close", "ttdb_dataset__num_arrays",
               "ttdb_dataset__find_array", "ttdb_dataset__arrays"} -> "dataset"
    [] fn \in {"ttdb_array__close", "ttdb_array__name", "ttdb_array__size",
               "ttdb_array__type", "ttdb_array__read"} -> "array"
    [] fn \in {"ttdb_type__kind", "ttdb_type__rank", "ttdb_type__dim"} -> "type"
    [] fn \in {"ttdb_series_iter__close", "ttdb_series_iter__next"} -> "series_iter"
    [] fn \in {"ttdb_time_step_iter__close", "ttdb_time_step_iter__next"} -> "time_step_iter"
    [] fn \in {"ttdb_array_iter__close", "ttdb_array_iter__next"} -> "array_iter"
    [] OTHER -> "none"

\* The kind of element an iterator of kind k yields, of container it walks,
\* and of iterator a container of kind k gives.
NElem(k) ==
  CASE k = "series_iter" -> "series"
    [] k = "time_step_iter" -> "time_step"
    [] OTHER -> "array"

NOver(k) ==
  CASE k = "series_iter" -> "storage"
    [] k = "time_step_iter" -> "series"
    [] OTHER -> "dataset"

NIterOf(k) ==
  CASE k = "storage" -> "series_iter"
    [] k = "series" -> "time_step_iter"
    [] OTHER -> "array_iter"

\* The last index at which a name occurs in a sequence of arrays, or -1.
NIndexOf_Last(arrays, name) ==
  IF \E i \in 1..Len(arrays) : arrays[i].name = name
  THEN (CHOOSE i \in 1..Len(arrays) :
          arrays[i].name = name /\ \A j \in (i + 1)..Len(arrays) : arrays[j].name # name) - 1
  ELSE -1

\* The first index at which a name occurs in a sequence of arrays, or -1.
NIndexOf(arrays, name) ==
  IF \E i \in 1..Len(arrays) : arrays[i].name = name
  THEN (CHOOSE i \in 1..Len(arrays) :
          arrays[i].name = name /\ \A j \in 1..(i - 1) : arrays[j].name # name) - 1
  ELSE -1

\* ttdb__open: a missing path fails with NotFound and no handle; a file that
\* is no valid container fails with FormatError, with no handle or with a
\* seemingly valid one (the spec leaves the return value open there).
NOpen(hp, e, path) ==
  CASE path \in DOMAIN Disk -> { NNew(hp, e, "storage", path, << >>) }
    [] path = "corrupt.ttdb" ->
         { NFail(hp, NULL, "FormatError"),
           LET a == NAlloc(hp, "storage", path, << >>) IN
             NFail(NPut(hp, a, 0), a, "FormatError") }
    [] OTHER -> { NFail(hp, NULL, "NotFound") }

\* A call on an open handle h of the kind fn takes.
NCall(hp, e, fn, h, arg) ==
  LET n == DiskCount(h.kind, h.path, h.ref) IN
  CASE fn \in NCloseFns -> NRet(NDrop(hp, h), e, 0, NULL, "")
    [] fn \in NCountFns -> NRet(hp, e, n, NULL, "")
    [] fn \in NLastFns ->
         IF n = 0
         THEN NFail(hp, NULL, "OutOfRange")
         ELSE NNew(hp, e, IF h.kind = "storage" THEN "series" ELSE "time_step",
                   h.path, Append(h.ref, n - 1))
    [] fn \in NIterFns -> NNew(hp, e, NIterOf(h.kind), h.path, h.ref)
    [] fn = "ttdb_time_step__time" -> NRet(hp, e, DiskTimeStep(h.path, h.ref).time, NULL, "")
    [] fn = "ttdb_time_step__uniforms" -> NNew(hp, e, "dataset", h.path, Append(h.ref, 0))
    [] fn = "ttdb_time_step__varyings" -> NNew(hp, e, "dataset", h.path, Append(h.ref, 1))
    [] fn = "ttdb_dataset__find_array" ->
         LET i == NIndexOf(DiskDataset(h.path, h.ref), arg) IN
           IF i < 0
           THEN NRet(hp, e, 0, NULL, "")
           ELSE NNew(hp, e, "array", h.path, Append(h.ref, i))
    [] fn = "ttdb_array__name" -> NRet(hp, e, 0, NULL, DiskArray(h.path, h.ref).name)
    [] fn = "ttdb_array__size" -> NRet(hp, e, DiskArray(h.path, h.ref).size, NULL, "")
    [] fn = "ttdb_array__type" ->
         LET a == DiskArray(h.path, h.ref) IN
           NRet(hp, e, 0, NTypeTok(a.kind, a.rank, a.dim), "")
    [] fn = "ttdb_array__read" ->
         LET a == DiskArray(h.path, h.ref) IN
           IF a.ok
           THEN NRet(hp, e, NBytes(a.size, a.dim, a.rank, a.kind), NULL, "")
           ELSE NFail(hp, NULL, "DecodeError")
    [] OTHER -> \* the *_iter__next functions
         IF hp[h] >= DiskCount(NOver(h.kind), h.path, h.ref)
         THEN NRet(hp, e, 0, NULL, "")
         ELSE LET a == NAlloc(hp, NElem(h.kind), h.path, Append(h.ref, hp[h])) IN
                NRet(NPut(NPut(hp, h, hp[h] + 1), a, 0), e, 0, a, "")

\* The accessors of a type token t: its kind string, rank and dim.
NType(hp, e, fn, t) ==
  CASE fn = "ttdb_type__kind" -> NRet(hp, e, 0, NULL, t.path)
    [] fn = "ttdb_type__rank" -> NRet(hp, e, t.ref[1], NULL, "")
    [] OTHER -> NRet(hp, e, t.ref[2], NULL, "")

\* The outcomes of the ABI function fn called with handle h and argument arg.
Native(hp, e, fn, h, arg) ==
  IF fn = "ttdb__open"
  THEN NOpen(hp, e, arg)
  ELSE IF h.kind = "type" /\ NTakes(fn) = "type"
  THEN { NType(hp, e, fn, h) }
  ELSE IF h \in DOMAIN hp /\ h.kind = NTakes(fn)
       THEN { NCall(hp, e, fn, h, arg) }
       ELSE { NInvalid(hp) }

\* Whether the call allocates a handle (the model keeps MaxLive of them).
NAllocates(hp, fn, h) ==
  \/ fn \in {"ttdb__open", "ttdb_time_step__uniforms", "ttdb_time_step__varyings",
             "ttdb_dataset__find_array"} \cup NLastFns \cup NIterFns
  \/ /\ fn \in NNextFns
     /\ h \in DOMAIN hp
     /\ h.kind = NTakes(fn)
     /\ hp[h] < DiskCount(NOver(h.kind), h.path, h.ref)

(***************************************************************************)
(* The binding layer: lib.func / checked_func.                             *)
(***************************************************************************)
\* Python's truth value of what ttdb__last_error returned (None and b"" are false).
Truthy(e) == e # NullStr /\ e # ""

\* A checked_func that trusts a non-null handle and reads the error channel
\* only when the call returned nothing.
CheckedFunc_TrustsHandle(n) ==
  IF Truthy(n.err) /\ n.hnd = NULL
  THEN [exc |-> "Error", ret |-> 0, hnd |-> NULL, txt |-> n.err]
  ELSE [exc |-> "none", ret |-> n.ret, hnd |-> n.hnd, txt |-> n.txt]

\* checked_func: result = func(*args); if error := last_error(): raise
\* Error(error.decode()); return result.  n is what the native call did.
CheckedFunc(n) ==
  IF Truthy(n.err)
  THEN [exc |-> "Error", ret |-> 0, hnd |-> NULL, txt |-> n.err]
  ELSE [exc |-> "none", ret |-> n.ret, hnd |-> n.hnd, txt |-> n.txt]

(***************************************************************************)
(* The binding layer: Kind, Rank and the buffer Array.data allocates.      *)
(***************************************************************************)
\* class Kind(Enum): the members, each with its value.
KindMembers ==
  {<<"unknown", "unknown">>, <<"int8", "int8_t">>, <<"uint8", "uint8_t">>,
   <<"int16", "int16_t">>, <<"uint16", "uint16_t">>, <<"int32", "int32_t">>,
   <<"uint32", "uint32_t">>, <<"int64", "int64_t">>, <<"uint64", "uint64_t">>,
   <<"float32", "float32_t">>, <<"float64", "float64_t">>}

\* Kind(value): the member with that value; Enum raises ValueError if none.
Kind(value) ==
  IF \E m \in KindMembers : m[2] = value
  THEN [exc |-> "none", member |-> (CHOOSE m \in KindMembers : m[2] = value)[1]]
  ELSE [exc |-> "ValueError", member |-> ""]

\* Rank(value): scalar = 0, vector = 1, matrix = 2; ValueError otherwise.
Rank(value) ==
  IF value \in {0, 1, 2}
  THEN [exc |-> "none", value |-> value]
  ELSE [exc |-> "ValueError", value |-> 0]

\* Kind.to_numpy: the dict kind_to_type; a member without an entry is a KeyError.
kind_to_type ==
  [k \in {"int8", "uint8", "int16", "uint16", "int32", "uint32", "int64", "uint64",
          "float32", "float64"} |->
     CASE k = "int8" -> "np.int8" [] k = "uint8" -> "np.uint8"
       [] k = "int16" -> "np.int16" [] k = "uint16" -> "np.uint16"
       [] k = "int32" -> "np.int32" [] k = "uint32" -> "np.uint32"
       [] k = "int64" -> "np.int64" [] k = "uint64" -> "np.uint64"
       [] k = "float32" -> "np.float32" [] OTHER -> "np.float64"]

to_numpy(member) ==
  IF member \in DOMAIN kind_to_type
  THEN [exc |-> "none", dtype |-> kind_to_type[member]]
  ELSE [exc |-> "KeyError", dtype |-> ""]

\* numpy: the bytes of one element of a dtype.
ItemSize(dtype) ==
  CASE dtype \in {"np.int8", "np.uint8"} -> 1
    [] dtype \in {"np.int16", "np.uint16"} -> 2
    [] dtype \in {"np.int32", "np.uint32", "np.float32"} -> 4
    [] OTHER -> 8

\* A shape that repeats the wrong tuple: (self.size, self.type.dim) * rank.
Shape_RepeatsPair(size, dim, rank) ==
  [i \in 1..(2 * rank) |-> IF i % 2 = 1 THEN size ELSE dim]

\* shape = (self.size,) + (self.type.dim,) * self.type.rank.value
Shape(size, dim, rank) == <<size>> \o [i \in 1..rank |-> dim]

\* The number of elements of an array of that shape.
RECURSIVE Elements(_)
Elements(shape) == IF shape = << >> THEN 1 ELSE Head(shape) * Elements(Tail(shape))

\* Array.data, given what size, type.dim, type.rank and type.kind returned:
\* np.empty(shape, dtype=kind.to_numpy()), its shape, dtype and bytes.
DataBuffer(size, dim, rank, kind) ==
  LET r == Rank(rank)
      k == Kind(kind)
      t == to_numpy(k.member)
      none == [exc |-> "none", shape |-> << >>, dtype |-> "", bytes |-> 0]
  IN CASE r.exc # "none" -> [none EXCEPT !.exc = r.exc]
       [] k.exc # "none" -> [none EXCEPT !.exc = k.exc]
       [] t.exc # "none" -> [none EXCEPT !.exc = t.exc]
       [] OTHER ->
            [exc |-> "none", shape |-> Shape(size, dim, r.value), dtype |-> t.dtype,
             bytes |-> Elements(Shape(size, dim, r.value)) * ItemSize(t.dtype)]

(***************************************************************************)
(* The binding layer: the wrapper objects.                                 *)
(***************************************************************************)
\* cls.__init__(handle): the wrapper only stores the C pointer.  stopped
\* and got are ghosts of an iterator: whether __next__ has raised
\* StopIteration, and what it has yielded so far.
NewObj(cls, h) == [cls |-> cls, h |-> h, stopped |-> FALSE, got |-> << >>]

\* What the caller of a method sees: the exception raised, or the number,
\* wrapper (named by its handle), string or None returned.
Raise(exc, txt) == [exc |-> exc, ret |-> 0, obj |-> NULL, txt |-> txt, none |-> FALSE]
Return(ret, obj, txt) == [exc |-> "none", ret |-> ret, obj |-> obj, txt |-> txt, none |-> FALSE]
ReturnNone == [exc |-> "none", ret |-> 0, obj |-> NULL, txt |-> "", none |-> TRUE]

\* The record kept of the last operation: the method, its receiver's handle
\* and argument, whether the receiver had raised StopIteration before, the
\* ABI call made and what the engine answered, what the caller saw, and
\* whether the operation before it was a read of another array that raised,
\* and whether the operation before it raised Error (prev).
Outcome(op, o, arg, fn, n, res) ==
  [op |-> op, h |-> o.h, arg |-> arg, was |-> o.stopped, fn |-> fn,
   sib |-> (last.op \in {"Array.read", "Array.data"} /\ last.exc = "Error" /\ last.h # o.h),
   prev |-> last.exc = "Error",
   nret |-> n.ret, nhnd |-> n.hnd, ntxt |-> n.txt, nerr |-> n.err,
   exc |-> res.exc, ret |-> res.ret, obj |-> res.obj, txt |-> res.txt, none |-> res.none]

\* The engine's part of a binding step.
Engine(n) ==
  /\ heap' = n.heap
  /\ err' = n.err
  /\ misuse' = (misuse \/ n.bad)

\* The model keeps at most MaxLive handles.
Room(fn, h) == NAllocates(heap, fn, h) => Cardinality(DOMAIN heap) < MaxLive

\* return Cls(fn(self._handle)): a method that wraps the handle it is given.
Wrapping(op, o, fn, cls) ==
  /\ Room(fn, o.h)
  /\ \E n \in Native(heap, err, fn, o.h, "") :
       LET c == CheckedFunc(n) IN
         /\ Engine(n)
         /\ IF c.exc = "Error"
            THEN /\ objs' = objs
                 /\ last' = Outcome(op, o, "", fn, n, Raise("Error", c.txt))
            ELSE /\ objs' = objs \cup {NewObj(cls, c.hnd)}
                 /\ last' = Outcome(op, o, "", fn, n, Return(0, c.hnd, ""))

\* A checked call that reads the error channel before it makes the call.
Getter_ReadsFirst(op, o, fn) ==
  \E n \in Native(heap, err, fn, o.h, "") :
    LET c == CheckedFunc([n EXCEPT !.err = err]) IN
      /\ Engine(n)
      /\ objs' = objs
      /\ last' = Outcome(op, o, "", fn, n,
                         IF c.exc = "Error" THEN Raise("Error", c.txt) ELSE Return(c.ret, NULL, c.txt))

\* return fn(self._handle): a property that returns a number or a string.
Getter(op, o, fn) ==
  \E n \in Native(heap, err, fn, o.h, "") :
    LET c == CheckedFunc(n) IN
      /\ Engine(n)
      /\ objs' = objs
      /\ last' = Outcome(op, o, "", fn, n,
                         IF c.exc = "Error" THEN Raise("Error", c.txt) ELSE Return(c.ret, NULL, c.txt))

\* A __del__ of a parent that also closes what was obtained from it: every
\* open handle that denotes something inside what this handle denotes.
Del_Cascade(op, o, fn) ==
  \E n \in Native(heap, err, fn, o.h, "") :
    LET c == CheckedFunc(n)
        inside == {x \in DOMAIN n.heap :
                     /\ x.path = o.h.path
                     /\ Len(x.ref) > Len(o.h.ref)
                     /\ SubSeq(x.ref, 1, Len(o.h.ref)) = o.h.ref}
    IN
      /\ heap' = [x \in DOMAIN n.heap \ inside |-> n.heap[x]]
      /\ err' = n.err
      /\ misuse' = (misuse \/ n.bad)
      /\ objs' = objs \ {o}
      /\ last' = Outcome(op, o, "", fn, n,
                         IF c.exc = "Error" THEN Raise("Error", c.txt) ELSE ReturnNone)

\* A __del__ of an iterator that also closes the elements it has yielded.
Del_ClosesYielded(op, o, fn) ==
  \E n \in Native(heap, err, fn, o.h, "") :
    LET c == CheckedFunc(n)
        yielded == {x \in DOMAIN n.heap :
                      /\ x.path = o.h.path
                      /\ \E i \in 1..Len(o.got) : o.got[i] = [kind |-> x.kind, ref |-> x.ref]}
    IN
      /\ heap' = [x \in DOMAIN n.heap \ yielded |-> n.heap[x]]
      /\ err' = n.err
      /\ misuse' = (misuse \/ n.bad)
      /\ objs' = objs \ {o}
      /\ last' = Outcome(op, o, "", fn, n,
                         IF c.exc = "Error" THEN Raise("Error", c.txt) ELSE ReturnNone)

\* A __del__ that runs after an explicit close: close is issued twice.
Del_Twice(op, o, fn) ==
  \E n \in Native(heap, err, fn, o.h, "") :
    \E m \in Native(n.heap, n.err, fn, o.h, "") :
      LET c == CheckedFunc(m) IN
        /\ heap' = m.heap
        /\ err' = m.err
        /\ misuse' = (misuse \/ n.bad \/ m.bad)
        /\ objs' = objs \ {o}
        /\ last' = Outcome(op, o, "", fn, m,
                           IF c.exc = "Error" THEN Raise("Error", c.txt) ELSE ReturnNone)

\* __del__: close(self._handle); the object is gone afterwards, also when
\* the close raised (an exception in __del__ is printed and ignored).
Del(op, o, fn) ==
  \E n \in Native(heap, err, fn, o.h, "") :
    LET c == CheckedFunc(n) IN
      /\ Engine(n)
      /\ objs' = objs \ {o}
      /\ last' = Outcome(op, o, "", fn, n,
                         IF c.exc = "Error" THEN Raise("Error", c.txt) ELSE ReturnNone)

\* A __next__ that wraps the wrong variable: return Cls(self._iter).
IterNext_WrapsIterator(op, o, fn, cls) ==
  /\ Room(fn, o.h)
  /\ \E n \in Native(heap, err, fn, o.h, "") :
       LET c == CheckedFunc(n) IN
         /\ Engine(n)
         /\ CASE c.exc = "Error" ->
                   /\ objs' = objs
                   /\ last' = Outcome(op, o, "", fn, n, Raise("Error", c.txt))
              [] c.exc = "none" /\ c.hnd = NULL ->
                   /\ objs' = (objs \ {o}) \cup {[o EXCEPT !.stopped = TRUE]}
                   /\ last' = Outcome(op, o, "", fn, n, Raise("StopIteration", ""))
              [] OTHER ->
                   /\ objs' = (objs \ {o}) \cup
                                {[o EXCEPT !.got = Append(@, [kind |-> o.h.kind, ref |-> o.h.ref])],
                                 NewObj(cls, o.h)}
                   /\ last' = Outcome(op, o, "", fn, n, Return(0, o.h, ""))

\* A __next__ that closes the native iterator as soon as it is exhausted.
IterNext_ClosesWhenDone(op, o, fn, cls) ==
  /\ Room(fn, o.h)
  /\ \E n \in Native(heap, err, fn, o.h, "") :
       LET c == CheckedFunc(n) IN
         /\ err' = n.err
         /\ misuse' = (misuse \/ n.bad)
         /\ CASE c.exc = "Error" ->
                   /\ heap' = n.heap
                   /\ objs' = objs
                   /\ last' = Outcome(op, o, "", fn, n, Raise("Error", c.txt))
              [] c.exc = "none" /\ c.hnd = NULL ->
                   /\ heap' = NDrop(n.heap, o.h)
                   /\ objs' = (objs \ {o}) \cup {[o EXCEPT !.stopped = TRUE]}
                   /\ last' = Outcome(op, o, "", fn, n, Raise("StopIteration", ""))
              [] OTHER ->
                   /\ heap' = n.heap
                   /\ objs' = (objs \ {o}) \cup
                                {[o EXCEPT !.got = Append(@, [kind |-> c.hnd.kind, ref |-> c.hnd.ref])],
                                 NewObj(cls, c.hnd)}
                   /\ last' = Outcome(op, o, "", fn, n, Return(0, c.hnd, ""))

\* __next__: if (x := next(self._iter)) is None: raise StopIteration;
\* return Cls(x).
IterNext(op, o, fn, cls) ==
  /\ Room(fn, o.h)
  /\ \E n \in Native(heap, err, fn, o.h, "") :
       LET c == CheckedFunc(n) IN
         /\ Engine(n)
         /\ CASE c.exc = "Error" ->
                   /\ objs' = objs
                   /\ last' = Outcome(op, o, "", fn, n, Raise("Error", c.txt))
              [] c.exc = "none" /\ c.hnd = NULL ->
                   /\ objs' = (objs \ {o}) \cup {[o EXCEPT !.stopped = TRUE]}
                   /\ last' = Outcome(op, o, "", fn, n, Raise("StopIteration", ""))
              [] OTHER ->
                   /\ objs' = (objs \ {o}) \cup
                                {[o EXCEPT !.got = Append(@, [kind |-> c.hnd.kind, ref |-> c.hnd.ref])],
                                 NewObj(cls, c.hnd)}
                   /\ last' = Outcome(op, o, "", fn, n, Return(0, c.hnd, ""))

\* A find_array without the None test: return Array(array).
FindArray_AlwaysWraps(op, o, fn, name) ==
  /\ Room(fn, o.h)
  /\ \E n \in Native(heap, err, fn, o.h, name) :
       LET c == CheckedFunc(n) IN
         /\ Engine(n)
         /\ IF c.exc = "Error"
            THEN /\ objs' = objs
                 /\ last' = Outcome(op, o, name, fn, n, Raise("Error", c.txt))
            ELSE /\ objs' = objs \cup {NewObj("Array", c.hnd)}
                 /\ last' = Outcome(op, o, name, fn, n, Return(0, c.hnd, ""))

\* array = ttdb_dataset__find_array(self._dataset, name.encode("utf-8"));
\* return Array(array) if array is not None else None.
FindArray(op, o, fn, name) ==
  /\ Room(fn, o.h)
  /\ \E n \in Native(heap, err, fn, o.h, name) :
       LET c == CheckedFunc(n) IN
         /\ Engine(n)
         /\ CASE c.exc = "Error" ->
                   /\ objs' = objs
                   /\ last' = Outcome(op, o, name, fn, n, Raise("Error", c.txt))
              [] c.exc = "none" /\ c.hnd = NULL ->
                   /\ objs' = objs
                   /\ last' = Outcome(op, o, name, fn, n, ReturnNone)
              [] OTHER ->
                   /\ objs' = objs \cup {NewObj("Array", c.hnd)}
                   /\ last' = Outcome(op, o, name, fn, n, Return(0, c.hnd, ""))

\* The module itself, the caller of open_storage: it holds no handle.
Module == NewObj("module", NULL)

\* self.__client = None, and no handler has run.
None == 0

\* No request has been received, and no reply has been made.
NoRequest == [json |-> "", requestID |-> "", type |-> "", text |-> ""]

NoReply == [status |-> "", requestID |-> "", result |-> ""]

Unserved ==
  [handler |-> "", socket |-> None, held |-> None, failed |-> FALSE, to |-> None,
   request |-> NoRequest, replies |-> 0, reply |-> NoReply, exc |-> "none"]

\* No reader has been constructed.  A reader records, besides its fields,
\* its last operation and how it ended, the times its last request
\* reported, whether a request has succeeded (asked), whether a frame was
\* appended to its storage's file since (grew), and whether its last
\* request came after such an append (late); the argument of its last
\* SetFileName (arg), whether its last operation called Modified(), and the
\* names its last RequestInformation passed to AddArray (added).
NoReader == << >>

\* The build script is not running.
NoBuild == << >>

\* The test driver is not running.
NoRunner == << >>

\* No server has been constructed.
NoServer == << >>

\* No type accessor has been called.
Untyped ==
  [size |-> 0, dim |-> 0, rank |-> 0, kind |-> "", op |-> "",
   exc |-> "none", ret |-> 0, txt |-> "", shape |-> << >>]

\* The record of the last operation when nothing has been called yet.
Start ==
  [op |-> "start", h |-> NULL, arg |-> "", was |-> FALSE, fn |-> "", sib |-> FALSE,
   prev |-> FALSE,
   nret |-> 0, nhnd |-> NULL, ntxt |-> "", nerr |-> NullStr,
   exc |-> "none", ret |-> 0, obj |-> NULL, txt |-> "", none |-> TRUE]

(***************************************************************************)
(* The operations of the binding layer, one action per method.             *)
(***************************************************************************)
\* An open_storage that builds the Storage before looking at the error: the
\* wrapper exists (and will close its handle) although the open failed.
open_storage_WrapsFirst(path) ==
  /\ Room("ttdb__open", NULL)
  /\ \E n \in Native(heap, err, "ttdb__open", NULL, path) :
       LET c == CheckedFunc(n) IN
         /\ Engine(n)
         /\ objs' = objs \cup {NewObj("Storage", n.hnd)}
         /\ last' = Outcome("open_storage", Module, path, "ttdb__open", n,
                            IF c.exc = "Error" THEN Raise("Error", c.txt) ELSE Return(0, c.hnd, ""))

\* open_storage(path): return Storage(ttdb__open(path.encode("utf-8"))).
open_storage(path) ==
  /\ Room("ttdb__open", NULL)
  /\ \E n \in Native(heap, err, "ttdb__open", NULL, path) :
       LET c == CheckedFunc(n) IN
         /\ Engine(n)
         /\ IF c.exc = "Error"
            THEN /\ objs' = objs
                 /\ last' = Outcome("open_storage", Module, path, "ttdb__open", n,
                                    Raise("Error", c.txt))
            ELSE /\ objs' = objs \cup {NewObj("Storage", c.hnd)}
                 /\ last' = Outcome("open_storage", Module, path, "ttdb__open", n,
                                    Return(0, c.hnd, ""))

Storage_del(o) == o.cls = "Storage" /\ Del("Storage.__del__", o, "ttdb__close")
Storage_num_series(o) == o.cls = "Storage" /\ Getter("Storage.num_series", o, "ttdb__num_series")
\* A last_series that calls the wrong ABI function: Series(ttdb__series(...)).
Storage_last_series_WrongCall(o) ==
  o.cls = "Storage" /\ Wrapping("Storage.last_series", o, "ttdb__series", "Series")

Storage_last_series(o) ==
  o.cls = "Storage" /\ Wrapping("Storage.last_series", o, "ttdb__last_series", "Series")
Storage_series(o) == o.cls = "Storage" /\ Wrapping("Storage.series", o, "ttdb__series", "SeriesIter")

SeriesIter_del(o) == o.cls = "SeriesIter" /\ Del("SeriesIter.__del__", o, "ttdb_series_iter__close")
SeriesIter_next(o) ==
  o.cls = "SeriesIter" /\ IterNext("SeriesIter.__next__", o, "ttdb_series_iter__next", "Series")

Series_del(o) == o.cls = "Series" /\ Del("Series.__del__", o, "ttdb_series__close")
Series_num_time_steps(o) ==
  o.cls = "Series" /\ Getter("Series.num_time_steps", o, "ttdb_series__num_time_steps")
Series_last_time_step(o) ==
  o.cls = "Series" /\ Wrapping("Series.last_time_step", o, "ttdb_series__last_time_step", "TimeStep")
Series_time_steps(o) ==
  o.cls = "Series" /\ Wrapping("Series.time_steps", o, "ttdb_series__time_steps", "TimeStepIter")

TimeStepIter_del(o) ==
  o.cls = "TimeStepIter" /\ Del("TimeStepIter.__del__", o, "ttdb_time_step_iter__close")
TimeStepIter_next(o) ==
  o.cls = "TimeStepIter"
  /\ IterNext("TimeStepIter.__next__", o, "ttdb_time_step_iter__next", "TimeStep")

TimeStep_del(o) == o.cls = "TimeStep" /\ Del("TimeStep.__del__", o, "ttdb_time_step__close")
TimeStep_time(o) == o.cls = "TimeStep" /\ Getter("TimeStep.time", o, "ttdb_time_step__time")
TimeStep_uniforms(o) ==
  o.cls = "TimeStep" /\ Wrapping("TimeStep.uniforms", o, "ttdb_time_step__uniforms", "Dataset")
\* A varyings accessor that memoizes: the Dataset made by an earlier access is
\* returned again while it lives, and no native call is made.
TimeStep_varyings_Memoized(o) ==
  /\ o.cls = "TimeStep"
  /\ LET cached == {d \in objs : /\ d.cls = "Dataset"
                                 /\ d.h.path = o.h.path
                                 /\ d.h.ref = Append(o.h.ref, 1)}
     IN IF cached = {}
        THEN Wrapping("TimeStep.varyings", o, "ttdb_time_step__varyings", "Dataset")
        ELSE \E d \in cached :
               /\ UNCHANGED <<heap, err, objs, misuse>>
               /\ last' = Outcome("TimeStep.varyings", o, "", "ttdb_time_step__varyings",
                                  NRet(heap, err, 0, d.h, ""), Return(0, d.h, ""))

TimeStep_varyings(o) ==
  o.cls = "TimeStep" /\ Wrapping("TimeStep.varyings", o, "ttdb_time_step__varyings", "Dataset")

Dataset_del(o) == o.cls = "Dataset" /\ Del("Dataset.__del__", o, "ttdb_dataset__close")
Dataset_num_arrays(o) ==
  o.cls = "Dataset" /\ Getter("Dataset.num_arrays", o, "ttdb_dataset__num_arrays")
Dataset_arrays(o) == o.cls = "Dataset" /\ Wrapping("Dataset.arrays", o, "ttdb_dataset__arrays", "ArrayIter")

Dataset_find_array(o, name) ==
  o.cls = "Dataset" /\ FindArray("Dataset.find_array", o, "ttdb_dataset__find_array", name)

ArrayIter_del(o) == o.cls = "ArrayIter" /\ Del("ArrayIter.__del__", o, "ttdb_array_iter__close")
ArrayIter_next(o) ==
  o.cls = "ArrayIter" /\ IterNext("ArrayIter.__next__", o, "ttdb_array_iter__next", "Array")

Array_del(o) == o.cls = "Array" /\ Del("Array.__del__", o, "ttdb_array__close")
Array_name(o) == o.cls = "Array" /\ Getter("Array.name", o, "ttdb_array__name")
Array_size(o) == o.cls = "Array" /\ Getter("Array.size", o, "ttdb_array__size")

\* type: return Type(ttdb_array__type(self._array)); a Type holds the token
\* only, no native resource, and has no __del__.
Array_type(o) ==
  /\ o.cls = "Array"
  /\ \E n \in Native(heap, err, "ttdb_array__type", o.h, "") :
       LET c == CheckedFunc(n) IN
         /\ Engine(n)
         /\ objs' = objs
         /\ last' = Outcome("Array.type", o, "", "ttdb_array__type", n,
                            IF c.exc = "Error" THEN Raise("Error", c.txt)
                            ELSE Return(0, c.hnd, ""))

\* read(data): ttdb_array__read(self._array, data), with a buffer of the
\* capacity the array needs (anything else is outside read's contract);
\* the number returned stands for the bytes now in the buffer.
Array_read(o) == o.cls = "Array" /\ Getter("Array.read", o, "ttdb_array__read")

\* The next checked call of a method that makes several: not made once an
\* earlier one has raised (stop: Python itself has raised in between).
Then(n, stop, fn, h) ==
  IF stop \/ Truthy(n.err)
  THEN {n}
  ELSE {[m EXCEPT !.bad = n.bad \/ m.bad] : m \in Native(n.heap, n.err, fn, h, "")}

\* data: size, type.dim, type.rank.value, type.kind (each a checked call,
\* type made anew each time), np.empty, read into it, return the array.
\* The number returned is the capacity of the buffer in bytes, the string
\* its dtype.
Array_data(o) ==
  /\ o.cls = "Array"
  /\ \E n1 \in Native(heap, err, "ttdb_array__size", o.h, "") :
     \E n2 \in Then(n1, FALSE, "ttdb_array__type", o.h) :
     \E n3 \in Then(n2, FALSE, "ttdb_type__dim", n2.hnd) :
     \E n4 \in Then(n3, FALSE, "ttdb_array__type", o.h) :
     \E n5 \in Then(n4, FALSE, "ttdb_type__rank", n4.hnd) :
     \E n6 \in Then(n5, Rank(n5.ret).exc # "none", "ttdb_array__type", o.h) :
     \E n7 \in Then(n6, Rank(n5.ret).exc # "none", "ttdb_type__kind", n6.hnd) :
     \E b \in {DataBuffer(n1.ret, n3.ret, n5.ret, n7.txt)} :
     \E n \in Then(n7, b.exc # "none", "ttdb_array__read", o.h) :
       /\ Engine(n)
       /\ objs' = objs
       /\ last' = Outcome("Array.data", o, "", "ttdb_array__read", n,
                          CASE Truthy(n.err) -> Raise("Error", n.err)
                            [] b.exc # "none" -> Raise(b.exc, "")
                            [] OTHER -> Return(b.bytes, NULL, b.dtype))

(***************************************************************************)
(* The specification: a script using the binding, one call at a time.      *)
(***************************************************************************)
Init ==
  /\ heap = [x \in {} |-> 0]
  /\ err = NullStr
  /\ objs = {}
  /\ misuse = FALSE
  /\ last = Start
  /\ threads = << >>
  /\ typed = Untyped
  /\ client = None
  /\ sockets = << >>
  /\ served = Unserved
  /\ reader = NoReader
  /\ stored = << >>
  /\ build = NoBuild
  /\ runner = NoRunner
  /\ server = NoServer

Next ==
  \/ \E p \in {"particles.ttdb", "missing.ttdb", "corrupt.ttdb"} : open_storage(p) /\ Aside
  \/ \E o \in objs : Storage_del(o) /\ Aside
  \/ \E o \in objs : Storage_num_series(o) /\ Aside
  \/ \E o \in objs : Storage_last_series(o) /\ Aside
  \/ \E o \in objs : Storage_series(o) /\ Aside
  \/ \E o \in objs : SeriesIter_del(o) /\ Aside
  \/ \E o \in objs : SeriesIter_next(o) /\ Aside
  \/ \E o \in objs : Series_del(o) /\ Aside
  \/ \E o \in objs : Series_num_time_steps(o) /\ Aside
  \/ \E o \in objs : Series_last_time_step(o) /\ Aside
  \/ \E o \in objs : Series_time_steps(o) /\ Aside
  \/ \E o \in objs : TimeStepIter_del(o) /\ Aside
  \/ \E o \in objs : TimeStepIter_next(o) /\ Aside
  \/ \E o \in objs : TimeStep_del(o) /\ Aside
  \/ \E o \in objs : TimeStep_time(o) /\ Aside
  \/ \E o \in objs : TimeStep_uniforms(o) /\ Aside
  \/ \E o \in objs : TimeStep_varyings(o) /\ Aside
  \/ \E o \in objs : Dataset_del(o) /\ Aside
  \/ \E o \in objs : Dataset_num_arrays(o) /\ Aside
  \/ \E o \in objs : Dataset_arrays(o) /\ Aside
  \/ \E o \in objs, name \in {"r", "v", "rho"} : Dataset_find_array(o, name) /\ Aside
  \/ \E o \in objs : ArrayIter_del(o) /\ Aside
  \/ \E o \in objs : ArrayIter_next(o) /\ Aside
  \/ \E o \in objs : Array_del(o) /\ Aside
  \/ \E o \in objs : Array_name(o) /\ Aside
  \/ \E o \in objs : Array_size(o) /\ Aside
  \/ \E o \in objs : Array_type(o) /\ Aside
  \/ \E o \in objs : Array_read(o) /\ Aside
  \/ \E o \in objs : Array_data(o) /\ Aside

Spec == Init /\ [][Next]_vars

(***************************************************************************)
(* Two threads using the binding at once.  Python runs other threads       *)
(* between the two statements of checked_func (ctypes releases the         *)
(* interpreter lock for the native call), so a checked call is two steps:  *)
(* the native call, and the read of the last-error slot.  The slot is the  *)
(* engine's single shared one.  Each thread runs                           *)
(*     storage = open_storage(path)                                        *)
(*     for series in storage.series():                                     *)
(*         try: kept.append(series.last_time_step)                         *)
(*         except Error: pass                                              *)
(* on a file of its own.                                                   *)
(***************************************************************************)
Threads == {"t1", "t2"}
ThreadPath(t) == IF t = "t1" THEN "particles.ttdb" ELSE "waves.ttdb"

\* The ABI call of the statement the thread is at.
ThreadFn(t) ==
  LET th == threads[t] IN
  CASE th.pc = "open" -> [fn |-> "ttdb__open", h |-> NULL, arg |-> ThreadPath(t)]
    [] th.pc = "iter" -> [fn |-> "ttdb__series", h |-> th.storage, arg |-> ""]
    [] th.pc = "next" -> [fn |-> "ttdb_series_iter__next", h |-> th.iter, arg |-> ""]
    [] OTHER -> [fn |-> "ttdb_series__last_time_step", h |-> th.series, arg |-> ""]

\* result = func(*args)
ThreadCall(t) ==
  LET th == threads[t]
      f == ThreadFn(t)
  IN
    /\ th.phase = "call"
    /\ th.pc \notin {"done", "failed"}
    /\ \E n \in Native(heap, err, f.fn, f.h, f.arg) :
         /\ heap' = n.heap
         /\ err' = n.err
         /\ threads' = [threads EXCEPT ![t] =
                          [th EXCEPT !.phase = "check",
                                     !.n = [ret |-> n.ret, hnd |-> n.hnd,
                                            txt |-> n.txt, err |-> n.err]]]
    /\ UNCHANGED <<objs, misuse, last, typed, client, sockets, served, reader, stored, build, runner, server>>

\* if error := self._last_error(): raise Error(...); return result -- and
\* the statement of the thread's program that made the call.
ThreadCheck(t) ==
  LET th == threads[t]
      c == CheckedFunc([th.n EXCEPT !.err = err])
      seen == [th EXCEPT !.phase = "call",
                         !.exc = IF c.exc = "none" /\ th.pc = "next" /\ c.hnd = NULL
                                 THEN "StopIteration" ELSE c.exc,
                         !.own = Truthy(th.n.err)]
  IN
    /\ th.phase = "check"
    /\ threads' = [threads EXCEPT ![t] =
         CASE th.pc = "last" -> [seen EXCEPT !.pc = "next"]
           [] c.exc = "Error" -> [seen EXCEPT !.pc = "failed"]
           [] th.pc = "open" -> [seen EXCEPT !.pc = "iter", !.storage = c.hnd]
           [] th.pc = "iter" -> [seen EXCEPT !.pc = "next", !.iter = c.hnd]
           [] c.hnd = NULL -> [seen EXCEPT !.pc = "done"]
           [] OTHER -> [seen EXCEPT !.pc = "last", !.series = c.hnd]]
    /\ UNCHANGED <<heap, err, objs, misuse, last, typed, client, sockets, served, reader, stored, build, runner, server>>

InitThreads ==
  /\ heap = [x \in {} |-> 0]
  /\ err = NullStr
  /\ objs = {}
  /\ misuse = FALSE
  /\ last = Start
  \* pc: the statement the thread is at; phase: before the native call or
  \* before the read of the slot; n: what the native call returned and the
  \* error it set itself; exc, own: ghosts of the last checked call, what it
  \* raised and whether the thread's own native call had failed.
  /\ threads = [t \in Threads |->
                  [pc |-> "open", phase |-> "call",
                   n |-> [ret |-> 0, hnd |-> NULL, txt |-> "", err |-> NullStr],
                   storage |-> NULL, iter |-> NULL, series |-> NULL,
                   exc |-> "none", own |-> FALSE]]
  /\ typed = Untyped
  /\ client = None
  /\ sockets = << >>
  /\ served = Unserved
  /\ reader = NoReader
  /\ stored = << >>
  /\ build = NoBuild
  /\ runner = NoRunner
  /\ server = NoServer

NextThreads ==
  \/ \E t \in Threads : ThreadCall(t)
  \/ \E t \in Threads : ThreadCheck(t)

SpecThreads == InitThreads /\ [][NextThreads]_vars

(***************************************************************************)
(* The Type accessors and the buffer of Array.data, as functions of what   *)
(* the engine reports: an array of some size whose type token has some     *)
(* kind string, rank and dim.  The engine's kind strings are the values of *)
(* Kind and, from an engine that knows more kinds than the binding, others.*)
(***************************************************************************)
MaxSize == 3
MaxDim == 3

\* The type token of the array described by typed.
TypedTok == NTypeTok(typed.kind, typed.rank, typed.dim)

\* kind: return Kind(ttdb_type__kind(self._type).decode("utf-8"))
Type_kind ==
  /\ typed.op = ""
  /\ \E n \in Native(heap, err, "ttdb_type__kind", TypedTok, "") :
       LET c == CheckedFunc(n)
           k == Kind(c.txt)
       IN
         /\ err' = n.err
         /\ typed' = [typed EXCEPT !.op = "Type.kind",
                                   !.exc = IF c.exc = "Error" THEN "Error" ELSE k.exc,
                                   !.txt = k.member]
  /\ UNCHANGED <<heap, objs, misuse, last, threads, client, sockets, served, reader, stored, build, runner, server>>

\* rank: return Rank(ttdb_type__rank(self._type))
Type_rank ==
  /\ typed.op = ""
  /\ \E n \in Native(heap, err, "ttdb_type__rank", TypedTok, "") :
       LET c == CheckedFunc(n)
           r == Rank(c.ret)
       IN
         /\ err' = n.err
         /\ typed' = [typed EXCEPT !.op = "Type.rank",
                                   !.exc = IF c.exc = "Error" THEN "Error" ELSE r.exc,
                                   !.ret = r.value]
  /\ UNCHANGED <<heap, objs, misuse, last, threads, client, sockets, served, reader, stored, build, runner, server>>

\* dim: return ttdb_type__dim(self._type)
Type_dim ==
  /\ typed.op = ""
  /\ \E n \in Native(heap, err, "ttdb_type__dim", TypedTok, "") :
       LET c == CheckedFunc(n) IN
         /\ err' = n.err
         /\ typed' = [typed EXCEPT !.op = "Type.dim", !.exc = c.exc, !.ret = c.ret]
  /\ UNCHANGED <<heap, objs, misuse, last, threads, client, sockets, served, reader, stored, build, runner, server>>

\* data, up to the call of read: the buffer np.empty gives for the shape
\* and the dtype made of size, type.dim, type.rank and type.kind.
Array_data_buffer ==
  /\ typed.op = ""
  /\ LET b == DataBuffer(typed.size, typed.dim, typed.rank, typed.kind) IN
       typed' = [typed EXCEPT !.op = "Array.data", !.exc = b.exc, !.ret = b.bytes,
                              !.txt = b.dtype, !.shape = b.shape]
  /\ UNCHANGED <<heap, err, objs, misuse, last, threads, client, sockets, served, reader, stored, build, runner, server>>

InitType ==
  /\ heap = [x \in {} |-> 0]
  /\ err = NullStr
  /\ objs = {}
  /\ misuse = FALSE
  /\ last = Start
  /\ threads = << >>
  /\ client = None
  /\ sockets = << >>
  /\ served = Unserved
  /\ reader = NoReader
  /\ stored = << >>
  /\ typed \in {[Untyped EXCEPT !.size = sz, !.dim = d, !.rank = r, !.kind = k] :
                  sz \in 0..MaxSize, d \in 0..MaxDim, r \in 0..2, k \in ({m[2] : m \in KindMembers} \cup {"float16_t", "bool"})}
  /\ build = NoBuild
  /\ runner = NoRunner
  /\ server = NoServer

NextType ==
  \/ Type_kind
  \/ Type_rank
  \/ Type_dim
  \/ Array_data_buffer

SpecType == InitType /\ [][NextType]_vars

(***************************************************************************)
(* The web-socket server of titback.  Sockets connect one after another;   *)
(* each is in state "idle" (not yet connected), "open" (accepted and       *)
(* connected), "closed" (closed by the server) or "down" (its disconnected *)
(* signal has been emitted), and records which of its signals are          *)
(* connected to the server's handlers.  Qt emits disconnected once, when   *)
(* the socket leaves the connected state; received data is processed from  *)
(* a queued readyRead, so a text message that arrived before the           *)
(* disconnect may be delivered after it.  The handlers are never           *)
(* disconnected from a socket.                                             *)
(***************************************************************************)
MaxSockets == 3

Sockets == 1..MaxSockets

\* The record of a handler run: the handler, the socket whose event it
\* was, the client slot when it began, whether its assertion failed, and
\* the socket a reply was sent to; for a message handler also the request,
\* the number of replies sent, the reply, and the exception that left it.
Served(handler, s, failed, to) ==
  [handler |-> handler, socket |-> s, held |-> client, failed |-> failed, to |-> to,
   request |-> NoRequest, replies |-> 0, reply |-> NoReply, exc |-> "none"]

\* A handler that accepts every connection, replacing the held client.
on_new_connection_Replaces(s) ==
  /\ sockets[s].state = "idle"
  /\ client' = s
  /\ sockets' = [sockets EXCEPT ![s] = [state |-> "open", disconnected |-> TRUE,
                                         textMessageReceived |-> TRUE]]
  /\ served' = Served("on_new_connection", s, FALSE, None)
  /\ UNCHANGED server

\* newConnection of the server, for socket s: nextPendingConnection() gives
\* s; with a client held s is closed and the handler returns, else s
\* becomes the client and its two signals are connected.
on_new_connection(s) ==
  /\ sockets[s].state = "idle"
  /\ IF client # None
     THEN /\ sockets' = [sockets EXCEPT ![s].state = "closed"]
          /\ client' = client
     ELSE /\ client' = s
          /\ sockets' = [sockets EXCEPT ![s] = [state |-> "open", disconnected |-> TRUE,
                                                 textMessageReceived |-> TRUE]]
  /\ served' = Served("on_new_connection", s, FALSE, None)
  /\ UNCHANGED server

\* disconnected of socket s, connected to the handler: assert the client
\* slot is not None; self.__client = None.
on_client_disconnected(s) ==
  /\ sockets[s].state = "open"
  /\ sockets[s].disconnected
  /\ sockets' = [sockets EXCEPT ![s].state = "down"]
  /\ client' = None
  /\ served' = Served("on_client_disconnected", s, client = None, None)
  /\ UNCHANGED server

\* The message texts that start with "#", and the commands.
Indices == {"#0", "#9", "#x"}

Commands == {"print(1)", "1/0", "raise SystemExit"}

\* The text messages a client sends: text that is not JSON, a JSON array,
\* and JSON objects with or without a requestID whose message is absent,
\* a string (empty, an index, a command) or a number.
Messages ==
  {[json |-> j, requestID |-> "absent", type |-> "absent", text |-> ""] :
     j \in {"invalid", "array"}}
  \cup {[json |-> "object", requestID |-> r, type |-> "str", text |-> t] :
          r \in {"absent", "7"}, t \in {""} \cup Indices \cup Commands}
  \cup {[json |-> "object", requestID |-> r, type |-> "absent", text |-> ""] :
          r \in {"absent", "7"}}
  \cup {[json |-> "object", requestID |-> r, type |-> "int", text |-> "5"] :
          r \in {"absent", "7"}}

\* A handler's result: the dictionary it returns, or the exception that
\* leaves it, and the process streams after it.
Returns(sv, status, result) ==
  [exc |-> "none", reply |-> [status |-> status, requestID |-> "absent", result |-> result],
   stdout |-> sv.stdout, stderr |-> sv.stderr]

Raises(sv, exc) ==
  [exc |-> exc, reply |-> NoReply, stdout |-> sv.stdout, stderr |-> sv.stderr]

\* __process_get_num_time_steps_message.
process_get_num_time_steps_message(sv) ==
  IF sv.storage = "none" THEN Returns(sv, "error", "Storage is not available.")
  ELSE IF sv.storage = "raises" THEN Raises(sv, "Error")
  ELSE Returns(sv, "success", "num_time_steps")

\* int(message[1:]).
int(text) ==
  IF text = "#0" THEN [exc |-> "none", value |-> 0]
  ELSE IF text = "#9" THEN [exc |-> "none", value |-> 9]
  ELSE [exc |-> "ValueError", value |-> 0]

\* __process_get_time_step_message.
process_get_time_step_message(sv, text) ==
  IF sv.storage = "none" THEN Returns(sv, "error", "Storage is not available.")
  ELSE IF int(text).exc # "none" THEN Returns(sv, "error", "Invalid time step index.")
  ELSE IF sv.storage = "raises" THEN Raises(sv, "Error")
  \* num_steps of the last series of a readable storage: 2.
  ELSE IF int(text).value < 0 \/ int(text).value >= 2
    THEN Returns(sv, "error", "Index out of range.")
  ELSE Returns(sv, "success", "arrays")

\* exec(message, globals, globals): the exception the command raises.
exec(text) ==
  IF text = "1/0" THEN "ZeroDivisionError"
  ELSE IF text = "raise SystemExit" THEN "SystemExit"
  ELSE "none"

\* __process_execute_message: the streams are replaced by two StringIO
\* objects, the command is executed, an Exception is caught and printed,
\* the streams are put back, and the captured output is the result.
process_execute_message(sv, text) ==
  IF exec(text) \in {"SystemExit", "KeyboardInterrupt", "GeneratorExit"}
    THEN [exc |-> exec(text), reply |-> NoReply, stdout |-> "StringIO", stderr |-> "StringIO"]
  ELSE [exc |-> "none",
        reply |-> [status |-> IF exec(text) = "none" THEN "success" ELSE "error",
                   requestID |-> "absent", result |-> "output"],
        stdout |-> sv.stdout, stderr |-> sv.stderr]

\* request.get("requestID") in the response: null when the key is absent.
RequestID(message) == IF message.requestID = "absent" THEN "null" ELSE message.requestID

\* __process_message: json.loads; request.get of a value that is not an
\* object raises AttributeError, as does startswith of a message that is a
\* number; the response is the requestID updated with the handler's result.
process_message(sv, message) ==
  IF message.json = "invalid" THEN Returns(sv, "error", "Invalid JSON")
  ELSE IF message.json # "object" THEN Raises(sv, "AttributeError")
  ELSE IF message.type = "int" THEN Raises(sv, "AttributeError")
  ELSE LET r == IF message.type = "str" /\ message.text \in Indices
                    THEN process_get_time_step_message(sv, message.text)
                  ELSE IF message.type = "absent" \/ message.text = ""
                    THEN process_get_num_time_steps_message(sv)
                  ELSE process_execute_message(sv, message.text)
       IN IF r.exc = "none" THEN [r EXCEPT !.reply.requestID = RequestID(message)] ELSE r

\* textMessageReceived of socket s, connected to the handler: assert the
\* client slot is not None; send the result of __process_message on the
\* socket in the slot.  An exception of __process_message leaves the
\* handler before sendTextMessage is called.
on_client_message(s, message) ==
  /\ sockets[s].state \in {"open", "down"}
  /\ sockets[s].textMessageReceived
  /\ IF client = None
       THEN /\ served' = [Served("on_client_message", s, TRUE, None) EXCEPT
                           !.request = message, !.exc = "AssertionError"]
            /\ UNCHANGED server
       ELSE \E r \in {process_message(server, message)} :
              /\ served' = [Served("on_client_message", s, FALSE,
                                   IF r.exc = "none" THEN client ELSE None) EXCEPT
                             !.request = message,
                             !.replies = IF r.exc = "none" THEN 1 ELSE 0,
                             !.reply = r.reply,
                             !.exc = r.exc]
              /\ server' = [server EXCEPT !.stdout = r.stdout, !.stderr = r.stderr]
  /\ UNCHANGED <<client, sockets>>

\* disconnected of a socket the server closed: no handler is connected.
rejected_disconnected(s) ==
  /\ sockets[s].state = "closed"
  /\ sockets' = [sockets EXCEPT ![s].state = "down"]
  /\ served' = Served("", s, FALSE, None)
  /\ UNCHANGED <<client, server>>

InitServer ==
  /\ heap = [x \in {} |-> 0]
  /\ err = NullStr
  /\ objs = {}
  /\ misuse = FALSE
  /\ last = Start
  /\ threads = << >>
  /\ typed = Untyped
  /\ client = None
  /\ sockets = [s \in Sockets |-> [state |-> "idle", disconnected |-> FALSE, textMessageReceived |-> FALSE]]
  /\ served = Unserved
  /\ reader = NoReader
  /\ stored = << >>
  /\ build = NoBuild
  /\ runner = NoRunner
  \* __init__: the storage is None when open_storage raised, else a storage
  \* whose series can be read, or one whose calls raise Error (no series
  \* for last_series, an array whose data cannot be read); the process
  \* streams are the process's.
  /\ server \in {[storage |-> storage, stdout |-> "process", stderr |-> "process"] :
                   storage \in {"none", "ok", "raises"}}

NextServer ==
  \/ \E s \in Sockets : on_new_connection(s) /\ UNCHANGED <<heap, err, objs, misuse, last, threads, typed, reader, stored, build, runner>>
  \/ \E s \in Sockets : on_client_disconnected(s) /\ UNCHANGED <<heap, err, objs, misuse, last, threads, typed, reader, stored, build, runner>>
  \/ \E s \in Sockets, message \in Messages : on_client_message(s, message) /\ UNCHANGED <<heap, err, objs, misuse, last, threads, typed, reader, stored, build, runner>>
  \/ \E s \in Sockets : rejected_disconnected(s) /\ UNCHANGED <<heap, err, objs, misuse, last, threads, typed, reader, stored, build, runner>>

SpecServer == InitServer /\ [][NextServer]_vars

(***************************************************************************)
(* The ParaView readers.  There are four of them in the repository, with   *)
(* the same interface: ttdbreader/TTDBReader.py, ttdb/TTDBReader.py,       *)
(* titparaview/ttdbreader/TTDBReader.py and pytit/paraview/ttdb_reader.py. *)
(* A solver appends frames to the last series of a file while a reader has *)
(* it open; the engine's last_series, time_steps and num_time_steps give   *)
(* what the file holds when they are called.  Frame i has time i - 1.      *)
(***************************************************************************)
MaxFrames == 3

ReaderFiles == {"particles.ttdb", "waves.ttdb"}

\* The arrays of every frame of a file, in iteration order, with their
\* ranks: 0 scalar, 1 vector, 2 matrix.
FrameArrays(f) ==
  IF f = "particles.ttdb"
  THEN << [name |-> "r", rank |-> 1], [name |-> "rho", rank |-> 0],
          [name |-> "S", rank |-> 2] >>
  ELSE << [name |-> "T", rank |-> 2], [name |-> "r", rank |-> 1] >>

\* The times of the first n frames, in iteration order.
FrameTimes(n) == [i \in 1..n |-> i - 1]

NoStorage == [held |-> "none", path |-> ""]

\* __init__: no file path, no storage, nothing cached.
NewReader(variant) ==
  [variant |-> variant, file_path |-> "", storage |-> NoStorage,
   series |-> FALSE, time_steps |-> [cached |-> FALSE, times |-> << >>],
   selection |-> {}, modified |-> FALSE,
   op |-> "", arg |-> "", exc |-> "none", seen |-> << >>, added |-> {},
   asked |-> FALSE, grew |-> FALSE, late |-> FALSE]

\* What a Storage constructed by the variant holds: open_storage(path)
\* opens the path and wraps the handle; Storage of ttdb.py wraps what it is
\* given, here the path string; Storage of pytit.data opens the path.
StorageOf(variant, path) ==
  CASE variant = "ttdb" -> [held |-> "string", path |-> path]
    [] OTHER -> [held |-> "handle", path |-> path]

\* The storage property (in titparaview, the head of __iter_frames): the
\* storage kept, or a new one for the file path, kept from then on.
storage(r) ==
  CASE r.storage.held # "none" -> [exc |-> "none", storage |-> r.storage]
    [] r.variant = "titparaview" /\ r.file_path = "" ->
         [exc |-> "AssertionError", storage |-> NoStorage]
    [] r.variant = "titparaview" /\ r.file_path \notin ReaderFiles ->
         [exc |-> "Error", storage |-> NoStorage]
    [] r.file_path \notin ReaderFiles ->
         [exc |-> "RuntimeError", storage |-> NoStorage]
    [] OTHER -> [exc |-> "none", storage |-> StorageOf(r.variant, r.file_path)]

\* The series and time_steps properties of pytit: the list made at the
\* first call, [series.last_time_step] * series.num_time_steps, is kept.
time_steps_pytit(r, st) ==
  CASE r.time_steps.cached -> [exc |-> {"none"}, series |-> r.series, time_steps |-> r.time_steps]
    [] stored[st.path] = 0 ->
         [exc |-> {"Error"}, series |-> TRUE, time_steps |-> r.time_steps]
    [] OTHER ->
         [exc |-> {"none"}, series |-> TRUE,
          time_steps |-> [cached |-> TRUE,
                          times |-> [i \in 1..stored[st.path] |-> stored[st.path] - 1]]]

\* time_steps() / __iter_frames(): self.storage.last_series.time_steps(),
\* a new iterator over what the file holds now.  A storage that wraps a
\* string hands the engine a pointer that is no handle: the call fails with
\* an error, or the process dies.
time_steps(r, st) ==
  CASE r.variant = "pytit" -> time_steps_pytit(r, st)
    [] st.held = "string" ->
         [exc |-> {"Error", "crash"}, series |-> FALSE, time_steps |-> r.time_steps]
    [] OTHER ->
         [exc |-> {"none"}, series |-> FALSE,
          time_steps |-> [cached |-> FALSE, times |-> FrameTimes(stored[st.path])]]

\* SetFileName(file_path): nothing for the current path; else the path is
\* set and the reader marked modified; titparaview also drops its storage.
SetFileName(file_path) ==
  /\ reader.exc # "crash"
  /\ IF reader.file_path = file_path
     THEN reader' = [reader EXCEPT !.modified = FALSE, !.op = "SetFileName",
                                   !.arg = file_path, !.exc = "none"]
     ELSE reader' = [reader EXCEPT
                       !.file_path = file_path,
                       !.storage = IF reader.variant = "titparaview" THEN NoStorage ELSE @,
                       !.modified = TRUE,
                       !.op = "SetFileName", !.arg = file_path, !.exc = "none"]
  /\ UNCHANGED stored

\* GetTimestepValues(): list(map(attrgetter("time"), self.time_steps())).
GetTimestepValues ==
  /\ reader.exc # "crash"
  /\ LET s == storage(reader) IN
       IF s.exc # "none"
       THEN reader' = [reader EXCEPT !.op = "GetTimestepValues", !.exc = s.exc,
                                     !.seen = << >>, !.late = FALSE, !.modified = FALSE]
       ELSE LET t == time_steps(reader, s.storage) IN
            \E e \in t.exc :
              reader' = [reader EXCEPT
                           !.storage = s.storage,
                           !.series = t.series,
                           !.time_steps = IF reader.variant = "pytit" THEN t.time_steps ELSE @,
                           !.op = "GetTimestepValues",
                           !.modified = FALSE,
                           !.exc = e,
                           !.seen = IF e = "none" THEN t.time_steps.times ELSE << >>,
                           !.asked = IF e = "none" THEN TRUE ELSE @,
                           !.grew = IF e = "none" THEN FALSE ELSE @,
                           !.late = e = "none" /\ reader.grew]
  /\ UNCHANGED stored

\* The solver writes one more frame to a file.
AppendFrame(f) ==
  /\ stored[f] < MaxFrames
  /\ stored' = [stored EXCEPT ![f] = @ + 1]
  /\ reader' = [reader EXCEPT
                  !.grew = @ \/ (reader.asked /\ reader.storage.path = f),
                  !.op = IF reader.exc = "crash" THEN @ ELSE "append"]

\* Every name, whatever the rank.
Reported_AnyRank(arrays) == {arrays[i].name : i \in 1..Len(arrays)}

\* for array in ...arrays(): if array.type.rank in (Rank.scalar,
\* Rank.vector): AddArray(array.name) -- the names passed to AddArray.
Reported(arrays) ==
  {arrays[i].name : i \in {j \in 1..Len(arrays) : Rank(arrays[j].rank).value \in {0, 1}}}

\* The names RequestInformation passes to AddArray, given the times of the
\* frames time_steps() yields: those of the probe frame, the first one, if
\* there is one; the reader of pytit adds three fixed names.
Probe(r, st, times) ==
  CASE r.variant = "pytit" -> {"r", "v", "rho"}
    [] times = << >> -> {}
    [] OTHER -> Reported(FrameArrays(st.path))

\* RequestInformation(): report the time of every frame of time_steps(),
\* then the arrays of the first frame of a second time_steps().
RequestInformation ==
  /\ reader.exc # "crash"
  /\ LET s == storage(reader) IN
       IF s.exc # "none"
       THEN reader' = [reader EXCEPT !.op = "RequestInformation", !.exc = s.exc,
                                     !.seen = << >>, !.added = {}, !.late = FALSE,
                                     !.modified = FALSE]
       ELSE LET t == time_steps(reader, s.storage) IN
            \E e \in t.exc :
            \E a \in {IF e = "none" THEN Probe(reader, s.storage, t.time_steps.times) ELSE {}} :
              reader' = [reader EXCEPT
                           !.storage = s.storage,
                           !.series = t.series,
                           !.time_steps = IF reader.variant = "pytit" THEN t.time_steps ELSE @,
                           !.op = "RequestInformation",
                           !.exc = e,
                           !.seen = IF e = "none" THEN t.time_steps.times ELSE << >>,
                           !.added = a,
                           !.selection = @ \cup a,
                           !.modified = ~(a \subseteq reader.selection),
                           !.asked = IF e = "none" THEN TRUE ELSE @,
                           !.grew = IF e = "none" THEN FALSE ELSE @,
                           !.late = e = "none" /\ reader.grew]
  /\ UNCHANGED stored

InitReader ==
  /\ heap = [x \in {} |-> 0]
  /\ err = NullStr
  /\ objs = {}
  /\ misuse = FALSE
  /\ last = Start
  /\ threads = << >>
  /\ typed = Untyped
  /\ client = None
  /\ sockets = << >>
  /\ served = Unserved
  /\ reader \in {NewReader(v) : v \in {"ttdbreader", "ttdb", "titparaview", "pytit"}}
  /\ stored \in [ReaderFiles -> 0..1]
  /\ build = NoBuild
  /\ runner = NoRunner
  /\ server = NoServer

NextReader ==
  \/ \E p \in (ReaderFiles \cup {"missing.ttdb"}) : SetFileName(p) /\ UNCHANGED <<heap, err, objs, misuse, last, threads, typed, client, sockets, served, build, runner, server>>
  \/ GetTimestepValues /\ UNCHANGED <<heap, err, objs, misuse, last, threads, typed, client, sockets, served, build, runner, server>>
  \/ RequestInformation /\ UNCHANGED <<heap, err, objs, misuse, last, threads, typed, client, sockets, served, build, runner, server>>
  \/ \E f \in ReaderFiles : AppendFrame(f) /\ UNCHANGED <<heap, err, objs, misuse, last, threads, typed, client, sockets, served, build, runner, server>>

SpecReader == InitReader /\ [][NextReader]_vars

(***************************************************************************)
(* build/build.py: build() prepares the output directory, looks for vcpkg, *)
(* and runs cmake (configure), cmake --build and, with --test, ctest, each *)
(* with subprocess.call, whose result is the exit code of the child, or    *)
(* minus the number of the signal that killed it.  sys.exit(n) ends the    *)
(* process with status n mod 256; returning from build() ends it with 0.   *)
(***************************************************************************)
ExitCodes == {0, 1, 2, -9}

\* The process status of sys.exit(n).
Status(n) == n % 256

\* sys.exit(n).
Exit(b, n) == [b EXCEPT !.pc = "exited", !.exit = n, !.status = Status(n)]

\* subprocess.call of a step returned code.
Ran(b, step, code) == [b EXCEPT !.ran = Append(@, [step |-> step, code |-> code])]

\* Parse the arguments; rmtree the output directory of a dry build; mkdir
\* it; find vcpkg unless --no-vcpkg, and sys.exit(-1) when there is none.
build_prepare ==
  /\ build.pc = "start"
  /\ LET b == [build EXCEPT !.outdir = IF build.args.dry \/ @ = "absent" THEN "fresh" ELSE @] IN
       build' = IF ~build.args.no_vcpkg /\ ~build.vcpkg
                THEN Exit(b, -1)
                ELSE [b EXCEPT !.pc = "configure"]

\* if (exit_code := subprocess.call(cmake_args)) != 0: sys.exit(exit_code)
build_configure(code) ==
  /\ build.pc = "configure"
  /\ build' = IF code # 0
              THEN Exit(Ran(build, "configure", code), code)
              ELSE [Ran(build, "configure", code) EXCEPT !.pc = "build"]

\* A build step that goes on to the tests whatever cmake --build returned.
build_build_KeepsGoing(code) ==
  /\ build.pc = "build"
  /\ build' = IF build.args.test
              THEN [Ran(build, "build", code) EXCEPT !.pc = "test"]
              ELSE Exit(Ran(build, "build", code), code)

\* The same for cmake --build; then, without --test, build() returns.
build_build(code) ==
  /\ build.pc = "build"
  /\ build' = CASE code # 0 -> Exit(Ran(build, "build", code), code)
                [] build.args.test -> [Ran(build, "build", code) EXCEPT !.pc = "test"]
                [] OTHER -> Exit(Ran(build, "build", code), 0)

\* if args.test: the same for ctest; then build() returns.
build_test(code) ==
  /\ build.pc = "test"
  /\ build' = IF code # 0
              THEN Exit(Ran(build, "test", code), code)
              ELSE Exit(Ran(build, "test", code), 0)

InitBuild ==
  /\ heap = [x \in {} |-> 0]
  /\ err = NullStr
  /\ objs = {}
  /\ misuse = FALSE
  /\ last = Start
  /\ threads = << >>
  /\ typed = Untyped
  /\ client = None
  /\ sockets = << >>
  /\ served = Unserved
  /\ reader = NoReader
  /\ stored = << >>
  /\ build \in {[args |-> [test |-> t, no_vcpkg |-> n, dry |-> d], vcpkg |-> v, outdir |-> o,
                  pc |-> "start", ran |-> << >>, exit |-> 0, status |-> 0] :
                 t \in BOOLEAN, n \in BOOLEAN, d \in BOOLEAN, v \in BOOLEAN,
                 o \in {"absent", "stale"}}
  /\ runner = NoRunner
  /\ server = NoServer

NextBuild ==
  \/ build_prepare /\ UNCHANGED <<heap, err, objs, misuse, last, threads, typed, client, sockets, served, reader, stored, runner, server>>
  \/ \E code \in ExitCodes : build_configure(code) /\ UNCHANGED <<heap, err, objs, misuse, last, threads, typed, client, sockets, served, reader, stored, runner, server>>
  \/ \E code \in ExitCodes : build_build(code) /\ UNCHANGED <<heap, err, objs, misuse, last, threads, typed, client, sockets, served, reader, stored, runner, server>>
  \/ \E code \in ExitCodes : build_test(code) /\ UNCHANGED <<heap, err, objs, misuse, last, threads, typed, client, sockets, served, reader, stored, runner, server>>

SpecBuild == InitBuild /\ [][NextBuild]_vars

(***************************************************************************)
(* build/test_runner.py: main() runs the test command, compares the exit   *)
(* code, then compares every pair of output_files: the --test-match-file   *)
(* pairs first, then stdout, then stderr.  A pair is (None, None) when the *)
(* expectation was not given.  The actual stdout and stderr files exist    *)
(* once the test has run (run_test opens them for writing); an actual      *)
(* match file exists only if the test wrote it.  same tells whether diff   *)
(* of the two filtered files returns 0.                                    *)
(***************************************************************************)
MaxMatchFiles == 1

\* The pairs a file can be: not given, given and equal, given and
\* different, and, for a match file, given but never written by the test.
StreamPairs ==
  {[given |-> FALSE, present |-> FALSE, same |-> FALSE], [given |-> TRUE, present |-> TRUE, same |-> TRUE],
   [given |-> TRUE, present |-> TRUE, same |-> FALSE]}
MatchPairs ==
  {[given |-> TRUE, present |-> TRUE, same |-> TRUE],
   [given |-> TRUE, present |-> TRUE, same |-> FALSE],
   [given |-> TRUE, present |-> FALSE, same |-> FALSE]}

\* return expected_exit_code & 0xFF == actual_exit_code & 0xFF
match_exit_code(expected_exit_code, actual_exit_code) ==
  (expected_exit_code % 256) = (actual_exit_code % 256)

\* match_file(expected_path, actual_path): True for a pair not given;
\* else filter both files (copying a file that does not exist raises
\* FileNotFoundError) and diff them.
match_file(f) ==
  CASE ~f.given -> [exc |-> "none", matched |-> TRUE]
    [] ~f.present -> [exc |-> "FileNotFoundError", matched |-> FALSE]
    [] OTHER -> [exc |-> "none", matched |-> f.same]

\* actual_exit_code = run_test(...); test_passed = True; then the exit
\* codes are matched and a mismatch is reported.
runner_run(code) ==
  /\ runner.pc = "run"
  /\ runner' = [runner EXCEPT
                  !.actual = code,
                  !.test_passed = match_exit_code(runner.expected, code),
                  !.reported = IF match_exit_code(runner.expected, code) THEN @ ELSE @ \cup {0},
                  !.pc = "files"]

\* One turn of the loop over output_files.
runner_match_file ==
  /\ runner.pc = "files"
  /\ runner.next <= Len(runner.files)
  /\ LET m == match_file(runner.files[runner.next]) IN
       runner' = IF m.exc # "none"
                 THEN [runner EXCEPT !.pc = "exited", !.exc = m.exc, !.exit = 1]
                 ELSE [runner EXCEPT
                         !.next = @ + 1,
                         !.compared = IF runner.files[runner.next].given
                                      THEN @ \cup {runner.next} ELSE @,
                         !.reported = IF m.matched THEN @ ELSE @ \cup {runner.next},
                         !.test_passed = @ /\ m.matched]

\* sys.exit(0) if test_passed else sys.exit(-1).
runner_exit ==
  /\ runner.pc = "files"
  /\ runner.next > Len(runner.files)
  /\ runner' = [runner EXCEPT !.pc = "exited", !.exit = IF runner.test_passed THEN 0 ELSE -1]

InitRunner ==
  /\ heap = [x \in {} |-> 0]
  /\ err = NullStr
  /\ objs = {}
  /\ misuse = FALSE
  /\ last = Start
  /\ threads = << >>
  /\ typed = Untyped
  /\ client = None
  /\ sockets = << >>
  /\ served = Unserved
  /\ reader = NoReader
  /\ stored = << >>
  /\ build = NoBuild
  /\ runner \in {[expected |-> e, actual |-> 0, files |-> m \o <<out, er>>,
                   pc |-> "run", next |-> 1, test_passed |-> TRUE,
                   compared |-> {}, reported |-> {}, exc |-> "none", exit |-> 0] :
                  e \in {0, 1, -1},
                  m \in UNION {[1..k -> MatchPairs] : k \in 0..MaxMatchFiles},
                  out \in StreamPairs, er \in StreamPairs}
  /\ server = NoServer

NextRunner ==
  \/ \E code \in ExitCodes \cup {255} : runner_run(code) /\ UNCHANGED <<heap, err, objs, misuse, last, threads, typed, client, sockets, served, reader, stored, build, server>>
  \/ runner_match_file /\ UNCHANGED <<heap, err, objs, misuse, last, threads, typed, client, sockets, served, reader, stored, build, server>>
  \/ runner_exit /\ UNCHANGED <<heap, err, objs, misuse, last, threads, typed, client, sockets, served, reader, stored, build, server>>

SpecRunner == InitRunner /\ [][NextRunner]_vars

(***************************************************************************)
(* Properties.                                                             *)
(***************************************************************************)
NextOps == {"SeriesIter.__next__", "TimeStepIter.__next__", "ArrayIter.__next__"}
NumberOps ==
  {"Storage.num_series", "Series.num_time_steps", "Dataset.num_arrays", "TimeStep.time",
   "Array.size"}
HandleOps ==
  {"open_storage", "Storage.last_series", "Storage.series", "Series.last_time_step",
   "Series.time_steps", "TimeStep.uniforms", "TimeStep.varyings", "Dataset.arrays",
   "Dataset.find_array"} \cup NextOps

\* C1: every call made through lib.func is followed by a read of the
\* last-error channel: the caller gets Error, carrying the channel's text,
\* exactly when the channel is non-empty after the native call (whatever the
\* call returned), and otherwise gets what the native call returned.
C1_CheckedCallRaisesOnError ==
  last.op # "start" =>
    /\ err = last.nerr
    /\ (last.exc = "Error") <=> (last.nerr \notin {NullStr, ""})
    /\ last.exc = "Error" => last.txt = last.nerr
    /\ (last.exc # "Error" /\ last.op \in HandleOps) => last.obj = last.nhnd
    /\ (last.exc # "Error" /\ last.op \in NumberOps) => last.ret = last.nret
    /\ (last.exc # "Error" /\ last.op = "Array.name") => last.txt = last.ntxt

\* A call that failed although the engine returned a non-null handle.
C1_Witness == last.exc = "Error" /\ last.nhnd # NULL

\* C2: open_storage on a path that does not exist raises Error (NotFound),
\* the engine returns no handle, no wrapper is constructed, nothing is
\* closed and no resource is held that was not held before.
C2_OpenMissingFails ==
  [][(last'.op = "open_storage" /\ last'.arg = "missing.ttdb") =>
       /\ last'.exc = "Error"
       /\ last'.txt = "NotFound"
       /\ last'.nhnd = NULL
       /\ last'.fn = "ttdb__open"
       /\ objs' = objs
       /\ heap' = heap
       /\ \A o \in objs' : o.h # NULL]_vars

C2_Witness ==
  last.op = "open_storage" /\ last.arg = "missing.ttdb" /\ last.exc = "Error" /\ objs # {}

\* The names of the arrays of the dataset a handle denotes.
ArrayNames(h) == {DiskDataset(h.path, h.ref)[i].name : i \in 1..Len(DiskDataset(h.path, h.ref))}

\* C3: find_array with a name that is not in the dataset returns None, the
\* error channel is empty, no Error is raised, no Array wrapper is created
\* and no handle is closed.
C3_FindMissingIsNotAnError ==
  [][(last'.op = "Dataset.find_array" /\ last'.arg \notin ArrayNames(last'.h)) =>
       /\ last'.exc = "none"
       /\ last'.none
       /\ err' \in {NullStr, ""}
       /\ objs' = objs
       /\ heap' = heap]_vars

C3_Witness ==
  last.op = "Dataset.find_array" /\ last.arg = "rho" /\ last.none /\ last.exc = "none"

\* What a fresh iterator over the container behind handle h (an iterator
\* handle) yields when driven to exhaustion: every element, in index order.
AllElements(h) ==
  [i \in 1..DiskCount(NOver(h.kind), h.path, h.ref) |->
     [kind |-> NElem(h.kind), ref |-> Append(h.ref, i - 1)]]

\* C4: an iterator that has reported exhaustion has yielded exactly the
\* elements of its container, as many as the container's count reports,
\* each index once and in ascending order; until then it has yielded a
\* prefix of them.
C4_IterationYieldsAll ==
  \A o \in objs :
    o.cls \in {"SeriesIter", "TimeStepIter", "ArrayIter"} =>
      /\ o.h.kind \in {"series_iter", "time_step_iter", "array_iter"}
      /\ Len(o.got) <= Len(AllElements(o.h))
      /\ o.got = SubSeq(AllElements(o.h), 1, Len(o.got))
      /\ o.stopped => o.got = AllElements(o.h)

C4_Witness ==
  \E o \in objs : o.stopped /\ Len(o.got) = 2 /\ o.got[1].ref # o.got[2].ref

\* C5: a __next__ on an iterator that has already raised StopIteration
\* raises StopIteration again: it neither raises Error nor yields.
C5_ExhaustedIsTerminal ==
  (last.op \in NextOps /\ last.was) =>
    /\ last.exc = "StopIteration"
    /\ last.obj = NULL
    /\ \E o \in objs : o.h = last.h /\ o.stopped

C5_Witness ==
  last.op = "TimeStepIter.__next__" /\ last.was /\ last.exc = "StopIteration"
  /\ \E o \in objs : o.h = last.h /\ Len(o.got) = 2

\* The element with the greatest index of the container behind handle h.
GreatestIndex(h) == Append(h.ref, DiskCount(h.kind, h.path, h.ref) - 1)

\* C6: last_series returns the series with index num_series - 1, and
\* last_time_step the time step with index num_time_steps - 1: the element
\* a full iteration of the container yields last.
C6_LastIsGreatestIndex ==
  /\ (last.op = "Storage.last_series" /\ last.exc = "none") =>
       /\ last.obj.kind = "series"
       /\ last.obj.path = last.h.path
       /\ last.obj.ref = GreatestIndex(last.h)
       /\ NewObj("Series", last.obj) \in objs
  /\ (last.op = "Series.last_time_step" /\ last.exc = "none") =>
       /\ last.obj.kind = "time_step"
       /\ last.obj.path = last.h.path
       /\ last.obj.ref = GreatestIndex(last.h)
       /\ NewObj("TimeStep", last.obj) \in objs
  /\ \A o \in objs :
       (o.cls \in {"SeriesIter", "TimeStepIter"} /\ o.stopped /\ o.got # << >>) =>
         o.got[Len(o.got)].ref =
           GreatestIndex(Tok(NOver(o.h.kind), o.h.path, o.h.ref, 0))

C6_Witness ==
  /\ last.op = "Series.last_time_step"
  /\ last.exc = "none"
  /\ last.obj.ref = <<1, 1>>

\* The kind of handle a handle of kind k is obtained from.
ParentKind(k) ==
  CASE k = "series" -> "storage"
    [] k = "time_step" -> "series"
    [] k = "dataset" -> "time_step"
    [] k = "array" -> "dataset"
    [] OTHER -> "none"

\* No handle is open on what handle h was obtained from: its parent handle
\* has been closed.
ParentClosed(h) ==
  /\ ParentKind(h.kind) # "none"
  /\ ~ \E x \in DOMAIN heap :
         /\ x.kind = ParentKind(h.kind)
         /\ x.path = h.path
         /\ x.ref = SubSeq(h.ref, 1, Len(h.ref) - 1)

\* What the stored data say a read-only method returns.
Stored(op, h) ==
  CASE op = "Storage.num_series" -> [ret |-> DiskCount("storage", h.path, h.ref), txt |-> ""]
    [] op = "Series.num_time_steps" -> [ret |-> DiskCount("series", h.path, h.ref), txt |-> ""]
    [] op = "Dataset.num_arrays" -> [ret |-> DiskCount("dataset", h.path, h.ref), txt |-> ""]
    [] op = "TimeStep.time" -> [ret |-> DiskTimeStep(h.path, h.ref).time, txt |-> ""]
    [] op = "Array.size" -> [ret |-> DiskArray(h.path, h.ref).size, txt |-> ""]
    [] OTHER -> [ret |-> 0, txt |-> DiskArray(h.path, h.ref).name]

\* C7: closing a parent handle does not invalidate a child obtained from it:
\* the handle of every live wrapper stays open, and an operation on a child
\* whose parent is closed succeeds with an empty error channel and returns
\* what the stored data say, as it did before the close.
C7_ChildOutlivesParent ==
  /\ \A o \in objs : o.h \in DOMAIN heap
  /\ (last.op \in NumberOps \cup {"Array.name"} /\ ParentClosed(last.h)) =>
       /\ last.exc = "none"
       /\ err \in {NullStr, ""}
       /\ last.ret = Stored(last.op, last.h).ret
       /\ last.txt = Stored(last.op, last.h).txt
  /\ (last.op \in HandleOps \ {"open_storage"} /\ ParentClosed(last.h) /\ last.exc = "Error") =>
       /\ last.op = "Series.last_time_step"
       /\ DiskCount("series", last.h.path, last.h.ref) = 0

\* An array read when every handle above it has been closed.
C7_Witness ==
  /\ last.op = "Array.size"
  /\ DOMAIN heap = {last.h}
  /\ last.exc = "none"
  /\ last.ret = 3

\* C8: destroying an iterator issues only that iterator's close: no other
\* handle is closed and no other wrapper goes away, so every element it has
\* yielded stays open.
C8_IteratorCloseKeepsElements ==
  [][last'.op \in {"SeriesIter.__del__", "TimeStepIter.__del__", "ArrayIter.__del__"} =>
       /\ last'.fn \in {"ttdb_series_iter__close", "ttdb_time_step_iter__close",
                        "ttdb_array_iter__close"}
       /\ DOMAIN heap' = DOMAIN heap \ {last'.h}
       /\ objs' = {o \in objs : o.h # last'.h}
       /\ \A o \in objs' : o.h \in DOMAIN heap']_vars

\* A series iterator destroyed while series 0, which only iteration yields,
\* is still held.
C8_Witness ==
  /\ last.op = "SeriesIter.__del__"
  /\ \E o \in objs : o.cls = "Series" /\ o.h.ref = <<0>> /\ o.h \in DOMAIN heap

\* C9: every access to uniforms or varyings makes one native call and returns
\* a wrapper of a handle that was not open before and that no other wrapper
\* holds; destroying a Dataset closes its own handle only.
C9_DatasetsAreFresh ==
  [][/\ (last'.op \in {"TimeStep.uniforms", "TimeStep.varyings"} /\ last'.exc = "none") =>
          /\ last'.fn = (IF last'.op = "TimeStep.uniforms"
                         THEN "ttdb_time_step__uniforms" ELSE "ttdb_time_step__varyings")
          /\ last'.obj = last'.nhnd
          /\ last'.obj.kind = "dataset"
          /\ last'.obj.ref = Append(last'.h.ref, IF last'.op = "TimeStep.uniforms" THEN 0 ELSE 1)
          /\ last'.obj \notin DOMAIN heap
          /\ last'.obj \in DOMAIN heap'
          /\ \A o \in objs : o.h # last'.obj
          /\ objs' = objs \cup {NewObj("Dataset", last'.obj)}
     /\ last'.op = "Dataset.__del__" =>
          /\ last'.fn = "ttdb_dataset__close"
          /\ DOMAIN heap' = DOMAIN heap \ {last'.h}
          /\ objs' = {o \in objs : o.h # last'.h}]_vars

\* One of two Datasets of the same frame destroyed, the other still held.
C9_Witness ==
  /\ last.op = "Dataset.__del__"
  /\ \E o \in objs : o.cls = "Dataset" /\ o.h.ref = last.h.ref /\ o.h \in DOMAIN heap

\* C10: no ABI call is issued on a handle that is not open (so none after
\* its close, and no second close), no two wrappers hold the same handle,
\* and once a wrapper has closed its handle no wrapper holds that handle.
C10_CloseOnceAndLast ==
  /\ ~misuse
  /\ \A o1, o2 \in objs : o1.h = o2.h => o1 = o2
  /\ last.op \in {"Storage.__del__", "Series.__del__", "TimeStep.__del__",
                  "Dataset.__del__", "Array.__del__", "SeriesIter.__del__",
                  "TimeStepIter.__del__", "ArrayIter.__del__"} =>
       /\ last.exc = "none"
       /\ last.h \notin DOMAIN heap
       /\ \A o \in objs : o.h # last.h

\* Everything that was opened has been closed again.
C10_Witness ==
  /\ last.op = "Array.__del__"
  /\ DOMAIN heap = {}
  /\ objs = {}

\* C11: the binding layer is leak-free: every open native handle is held by
\* exactly one live wrapper, so once every wrapper has been destroyed no
\* native handle remains open; this includes a handle the engine returned
\* from a call that also set the error channel.
C11_NoLeak ==
  \A h \in DOMAIN heap : Cardinality({o \in objs : o.h = h}) = 1

\* A failed open that returned a handle: the handle is open, no wrapper
\* holds it, and nothing is left that could close it.
C11_Witness ==
  /\ last.op = "open_storage"
  /\ last.exc = "Error"
  /\ last.nhnd # NULL
  /\ last.nhnd \in DOMAIN heap
  /\ objs = {}

\* C12: two threads, each with a Storage of its own on a different path,
\* do not see each other's errors: a checked call raises Error only when
\* the native call of that very thread failed.
C12_NoForeignError ==
  \A t \in Threads : threads[t].exc = "Error" => threads[t].own

\* A thread whose open succeeded is handed the OutOfRange that the other
\* thread's last_time_step on its empty series has just set.
C12_Witness ==
  \E t, u \in Threads :
    /\ t # u
    /\ threads[t].pc = "failed"
    /\ threads[t].exc = "Error"
    /\ ~threads[t].own
    /\ threads[t].n.hnd # NULL
    /\ threads[u].n.err = "OutOfRange"
    /\ err = "OutOfRange"

\* What the stored data say name, size, type and read of the array behind
\* handle h give: read raises exactly when the array's bytes do not decode.
ArrayAnswer(op, h) ==
  LET a == DiskArray(h.path, h.ref)
      ok == [exc |-> "none", ret |-> 0, txt |-> "", obj |-> NULL]
  IN CASE op = "Array.name" -> [ok EXCEPT !.txt = a.name]
       [] op = "Array.size" -> [ok EXCEPT !.ret = a.size]
       [] op = "Array.type" -> [ok EXCEPT !.obj = NTypeTok(a.kind, a.rank, a.dim)]
       [] a.ok -> [ok EXCEPT !.ret = NBytes(a.size, a.dim, a.rank, a.kind)]
       [] OTHER -> [ok EXCEPT !.exc = "Error", !.txt = "DecodeError"]

\* C13: a read or data that raises Error closes no handle and destroys no
\* wrapper, and name, size, type and read of another array called right
\* after it give what the stored data say, as they did before: they raise
\* only if that array's own bytes do not decode.
C13_FailedReadSparesSiblings ==
  [][/\ (last'.op \in {"Array.read", "Array.data"} /\ last'.exc = "Error") =>
          /\ heap' = heap
          /\ objs' = objs
     /\ (last'.sib /\ last'.op \in {"Array.name", "Array.size", "Array.type", "Array.read"}) =>
          /\ last'.exc = ArrayAnswer(last'.op, last'.h).exc
          /\ last'.ret = ArrayAnswer(last'.op, last'.h).ret
          /\ last'.txt = ArrayAnswer(last'.op, last'.h).txt
          /\ last'.obj = ArrayAnswer(last'.op, last'.h).obj]_vars

\* Array r of the frame at time 0 read in full right after the read of its
\* sibling v raised.
C13_Witness ==
  /\ last.sib
  /\ last.op = "Array.read"
  /\ last.exc = "none"
  /\ last.ret = 32
  /\ \E o \in objs : o.cls = "Array" /\ o.h # last.h /\ ~DiskArray(o.h.path, o.h.ref).ok

\* The ten numeric kinds, by the engine's kind string.
NumericKinds == {m[2] : m \in KindMembers} \ {"unknown"}

\* C14: for an array of one of the ten numeric kinds, data allocates a
\* buffer of shape (size,) + (dim,) * rank whose element type has the width
\* of the kind, so its capacity is size * dim^rank * element_width(kind)
\* bytes, what read copies into it.
C14_BufferMatchesRead ==
  (typed.op = "Array.data" /\ typed.kind \in NumericKinds) =>
    /\ typed.exc = "none"
    /\ Len(typed.shape) = 1 + typed.rank
    /\ typed.shape[1] = typed.size
    /\ \A i \in 2..Len(typed.shape) : typed.shape[i] = typed.dim
    /\ ItemSize(typed.txt) = NWidth(typed.kind)
    /\ typed.ret = NBytes(typed.size, typed.dim, typed.rank, typed.kind)

\* Three 2-by-2 matrices of uint16: shape (3, 2, 2), 24 bytes.
C14_Witness ==
  /\ typed.op = "Array.data"
  /\ typed.kind = "uint16_t"
  /\ typed.shape = <<3, 2, 2>>
  /\ typed.ret = 24

\* C15: the kind accessor never raises: for every kind string the engine
\* returns it gives a member of Kind, and for a string that is not one of
\* the ten numeric kind names it gives Kind.unknown.
C15_KindNeverRaises ==
  typed.op = "Type.kind" =>
    /\ typed.exc = "none"
    /\ \E m \in KindMembers : m[1] = typed.txt
    /\ typed.kind \notin NumericKinds => typed.txt = "unknown"

\* A kind string the binding does not know: Kind(...) raises ValueError.
C15_Witness ==
  /\ typed.op = "Type.kind"
  /\ typed.kind = "float16_t"
  /\ typed.exc = "ValueError"

\* The arrays that arrays() of the dataset behind handle h yields, in the
\* order it yields them.
Yielded(h) == AllElements([kind |-> "array_iter", path |-> h.path, ref |-> h.ref])

\* The positions, in that order, of the arrays whose name is name.
Named(h, name) ==
  {i \in 1..Len(Yielded(h)) : DiskArray(h.path, Yielded(h)[i].ref).name = name}

\* C16: find_array(name) returns the first array, in the order arrays()
\* yields them, whose name is name, also when several arrays have that
\* name, and returns None exactly when no yielded array has that name.
C16_FindFirst ==
  [][(last'.op = "Dataset.find_array" /\ last'.exc = "none") =>
       /\ last'.none <=> Named(last'.h, last'.arg) = {}
       /\ ~last'.none =>
            \E i \in Named(last'.h, last'.arg) :
              /\ \A j \in Named(last'.h, last'.arg) : i <= j
              /\ last'.obj.kind = Yielded(last'.h)[i].kind
              /\ last'.obj.path = last'.h.path
              /\ last'.obj.ref = Yielded(last'.h)[i].ref]_vars

\* Two arrays of the dataset are named "r"; the first one yielded is found.
C16_Witness ==
  /\ last.op = "Dataset.find_array"
  /\ last.arg = "r"
  /\ Cardinality(Named(last.h, "r")) = 2
  /\ last.obj # NULL
  /\ last.obj.ref = Yielded(last.h)[1].ref

\* The entity counts of the frames of the series that holds the frame of
\* the array behind handle h.
FrameCounts(h) ==
  {DiskSeries(h.path, h.ref)[i].count : i \in 1..Len(DiskSeries(h.path, h.ref))}

C18_OneClient ==
  [][/\ \A s \in Sockets : sockets'[s].state = "open" => client' = s
     /\ (served'.handler = "on_new_connection" /\ served'.held # None
         /\ sockets[served'.socket].state = "idle") =>
          /\ sockets'[served'.socket].state = "closed"
          /\ ~sockets'[served'.socket].disconnected
          /\ ~sockets'[served'.socket].textMessageReceived
          /\ client' = client
          /\ \A t \in Sockets \ {served'.socket} : sockets'[t] = sockets[t]]_vars

\* A second connection was rejected while the first is still the client.
C18_Witness ==
  /\ served.handler = "on_new_connection"
  /\ served.held = 1
  /\ served.socket = 2
  /\ sockets[2].state = "closed"
  /\ client = 1
  /\ sockets[1].state = "open"

\* C19: whenever on_client_disconnected or on_client_message runs, the
\* client slot is not None: the handler's assertion holds.
C19_AssertionsHold ==
  served.handler \in {"on_client_disconnected", "on_client_message"} => ~served.failed

\* A text message of a client delivered after that client's disconnect
\* finds the client slot None.
C19_Witness ==
  /\ served.handler = "on_client_message"
  /\ sockets[served.socket].state = "down"
  /\ served.held = None
  /\ served.failed

\* C20: a request for the time steps that follows the appending of a frame
\* to the storage the reader has open, itself after an earlier request,
\* sees the appended frame: it reports every frame the file holds now.
C20_RequestSeesAppended ==
  (reader # NoReader /\ reader.op = "GetTimestepValues" /\ reader.late) =>
     /\ Len(reader.seen) = stored[reader.storage.path]
     /\ stored[reader.storage.path] > 0 =>
          reader.seen[Len(reader.seen)] = FrameTimes(stored[reader.storage.path])[stored[reader.storage.path]]

\* The reader of pytit answers from the list it made before the append.
C20_Witness ==
  /\ reader # NoReader
  /\ reader.variant = "pytit"
  /\ reader.op = "GetTimestepValues"
  /\ reader.late
  /\ reader.seen = <<0>>
  /\ stored[reader.storage.path] = 2

\* C21: a RequestInformation of one of the three TTDBReader classes passes
\* to AddArray exactly the names of the scalar and vector arrays of the
\* first frame of the last series: no name of a matrix array as such,
\* nothing when the series has no frames, and nothing when it raises.
C21_NoMatrixReported ==
  (reader # NoReader /\ reader.op = "RequestInformation" /\ reader.variant # "pytit") =>
     IF reader.exc = "none" /\ stored[reader.storage.path] > 0
     THEN LET arrays == FrameArrays(reader.storage.path) IN
            /\ \A i \in 1..Len(arrays) :
                 arrays[i].rank \in {0, 1} => arrays[i].name \in reader.added
            /\ \A name \in reader.added :
                 \E i \in 1..Len(arrays) : arrays[i].name = name /\ arrays[i].rank \in {0, 1}
     ELSE reader.added = {}

\* The frame has a vector, a scalar and a matrix: two names are added.
C21_Witness ==
  /\ reader # NoReader
  /\ reader.op = "RequestInformation"
  /\ reader.variant = "ttdbreader"
  /\ reader.exc = "none"
  /\ reader.added = {"r", "rho"}
  /\ \E i \in 1..Len(FrameArrays(reader.storage.path)) :
       FrameArrays(reader.storage.path)[i].rank = 2

\* C22: the steps run are a prefix of configure, build, test; a step runs
\* only after the one before it returned 0, and the tests only with --test;
\* a step that returns a non-zero code is the last one run, and the process
\* then exits by sys.exit with that code; the process exits with 0 only
\* when every step asked for has run and returned 0.
C22_StepsInOrder ==
  build # NoBuild =>
    /\ Len(build.ran) <= 3
    /\ \A i \in 1..Len(build.ran) :
         /\ build.ran[i].step = <<"configure", "build", "test">>[i]
         /\ i > 1 => build.ran[i - 1].code = 0
         /\ build.ran[i].step = "test" => build.args.test
         /\ build.ran[i].code # 0 =>
              /\ i = Len(build.ran)
              /\ build.pc = "exited"
              /\ build.exit = build.ran[i].code
              /\ build.status = Status(build.ran[i].code)
    /\ (build.pc = "exited" /\ build.exit = 0) =>
         /\ Len(build.ran) = IF build.args.test THEN 3 ELSE 2
         /\ \A i \in 1..Len(build.ran) : build.ran[i].code = 0

\* With --test, cmake --build returned 2: no tests, exit code 2.
C22_Witness ==
  /\ build # NoBuild
  /\ build.args.test
  /\ build.pc = "exited"
  /\ Len(build.ran) = 2
  /\ build.ran[1].code = 0
  /\ build.ran[2].code = 2
  /\ build.exit = 2

\* The pairs of output_files that were given an expected file.
Given == {i \in 1..Len(runner.files) : runner.files[i].given}

\* C23: the test driver exits with 0 exactly when the exit codes agree in
\* their low 8 bits and every expected file matches its actual file, and
\* with -1 otherwise; in both cases every expected file has been compared,
\* and every mismatch reported, whatever was found before it.
C23_ExitTellsAllMatched ==
  (runner # NoRunner /\ runner.pc = "exited") =>
    /\ runner.exit = 0 <=>
         /\ (runner.expected % 256) = (runner.actual % 256)
         /\ \A i \in Given : runner.files[i].present /\ runner.files[i].same
    /\ runner.exit # 0 => runner.exit = -1
    /\ runner.compared = Given
    /\ \A i \in Given :
         ~(runner.files[i].present /\ runner.files[i].same) => i \in runner.reported

\* The test did not write its match file: the driver ends with a traceback
\* before it has compared the expected stdout.
C23_Witness ==
  /\ runner # NoRunner
  /\ runner.pc = "exited"
  /\ runner.exc = "FileNotFoundError"
  /\ runner.exit = 1
  /\ Len(runner.files) = 3
  /\ ~runner.files[1].present
  /\ runner.files[2].given
  /\ 2 \notin runner.compared

\* Whether the native operation fn on handle h with argument arg succeeds
\* in the current heap: all its outcomes leave the error channel empty.
Succeeds(fn, h, arg) ==
  \A n \in Native(heap, NullStr, fn, h, arg) : ~Truthy(n.err)

\* C24: a checked call that follows one that raised Error, and whose native
\* operation succeeds, does not raise Error: it returns what the engine
\* returned (or, for an iterator at its end, raises StopIteration), and the
\* last-error slot holds no error after it.
C24_NoStaleError ==
  [][(last.exc = "Error" /\ last'.op \in (HandleOps \cup NumberOps \cup {"Array.name"})
      /\ Succeeds(last'.fn, last'.h, last'.arg)) =>
       /\ last'.exc # "Error"
       /\ ~Truthy(err')
       /\ \E n \in Native(heap, NullStr, last'.fn, last'.h, last'.arg) :
            /\ last'.op \in HandleOps =>
                 /\ last'.obj = n.hnd
                 /\ last'.exc = IF n.hnd = NULL /\ last'.op \in NextOps
                                THEN "StopIteration" ELSE "none"
                 /\ last'.none = (n.hnd = NULL /\ last'.op = "Dataset.find_array")
            /\ last'.op \in NumberOps => last'.ret = n.ret
            /\ last'.op = "Array.name" => last'.txt = n.txt]_vars

\* After an open_storage that raised, num_series of an open storage returns.
C24_Witness ==
  /\ last.prev
  /\ last.op = "Storage.num_series"
  /\ last.exc = "none"
  /\ last.ret = 2

\* C25: every text message of the held client gets exactly one reply, sent
\* to that client, that has a status and the requestID of the request.
C25_OneReplyPerMessage ==
  (served.handler = "on_client_message" /\ served.held # None
   /\ served.socket = served.held) =>
     /\ served.replies = 1
     /\ served.to = served.held
     /\ served.exc = "none"
     /\ served.reply.status \in {"success", "error"}
     /\ served.reply.requestID # "absent"
     /\ served.request.json = "object" => served.reply.requestID = RequestID(served.request)

\* The held client sent a JSON array: AttributeError, and no reply.
C25_Witness ==
  /\ served.handler = "on_client_message"
  /\ served.held = 1
  /\ served.socket = 1
  /\ served.request.json = "array"
  /\ served.exc = "AttributeError"
  /\ served.replies = 0
  /\ served.to = None

\* C26: a request that succeeds reads from a storage opened at the reader's
\* current file path, and SetFileName with the current path changes no
\* field of the reader and does not mark it modified.
C26_ReadsCurrentFile ==
  [][/\ (reader'.op \in {"GetTimestepValues", "RequestInformation"}
         /\ reader' # reader /\ reader'.exc = "none") =>
          reader'.storage.path = reader'.file_path
     /\ (reader'.op = "SetFileName" /\ reader'.arg = reader.file_path) =>
          /\ reader'.file_path = reader.file_path
          /\ reader'.storage = reader.storage
          /\ reader'.series = reader.series
          /\ reader'.time_steps = reader.time_steps
          /\ reader'.selection = reader.selection
          /\ ~reader'.modified]_vars

\* The reader of ttdbreader, set to waves.ttdb after a request on
\* particles.ttdb, reports the frames of particles.ttdb.
C26_Witness ==
  /\ reader.variant = "ttdbreader"
  /\ reader.file_path = "waves.ttdb"
  /\ reader.op = "GetTimestepValues"
  /\ reader.exc = "none"
  /\ reader.storage = [held |-> "handle", path |-> "particles.ttdb"]
  /\ stored["particles.ttdb"] = 3
  /\ stored["waves.ttdb"] = 1
  /\ reader.seen = FrameTimes(3)

\* C27: the Storage a reader holds wraps a handle that ttdb__open returned,
\* never anything else, such as a path string.
C27_StorageHoldsHandle ==
  (reader # NoReader /\ reader.storage # NoStorage) => reader.storage.held = "handle"

\* The reader of source/ttdb holds a Storage made from its file path, and
\* the request that called the engine with it killed the process.
C27_Witness ==
  /\ reader.variant = "ttdb"
  /\ reader.file_path = "particles.ttdb"
  /\ reader.storage = [held |-> "string", path |-> "particles.ttdb"]
  /\ reader.op = "RequestInformation"
  /\ reader.exc = "crash"

\* C28: a message handler that executed a command leaves sys.stdout and
\* sys.stderr the objects they were before it, however the command ended,
\* and a reply that is sent carries the captured output as its result.
C28_StreamsRestored ==
  [][(served'.handler = "on_client_message" /\ served'.request.text \in Commands
      /\ served'.held # None) =>
       /\ server'.stdout = server.stdout
       /\ server'.stderr = server.stderr
       /\ served'.replies = 1 => served'.reply.result = "output"]_vars

\* The command raise SystemExit left the handler with SystemExit, and the streams are
\* the StringIO objects of the capture.
C28_Witness ==
  /\ served.handler = "on_client_message"
  /\ served.held # None
  /\ served.request.text = "raise SystemExit"
  /\ served.exc = "SystemExit"
  /\ served.replies = 0
  /\ server.stdout = "StringIO"
  /\ server.stderr = "StringIO"

====
